---------------------------- MODULE Spec2Model ----------------------------
(***************************************************************************)
(* A model of audiobook-tools: the CUE timecode arithmetic, the CUE sheet  *)
(* parser and combiner (core/cue.py), the filename chapter extractor and   *)
(* the processing pipeline (core/processor.py).                            *)
(*                                                                         *)
(* Text is modelled as sequences of one-character strings: timecodes,      *)
(* paths, and the lines of CUE sheets, on which the patterns of the parser *)
(* are searched character by character.  A character outside ASCII and a   *)
(* control character that has no escape is the name of its code point, as  *)
(* in "U+0660" and "U+000B".                                               *)
(*                                                                         *)
(* Time is counted in ticks: one CD frame is TicksPerFrame ticks, so that  *)
(* probed durations may fall between frames and round(seconds * 75) has    *)
(* something to round.                                                     *)
(***************************************************************************)
EXTENDS Integers, Sequences, FiniteSets, TLC

\* ------------------------------------------------------------------------
\* Bounds of the model
\* ------------------------------------------------------------------------

\* Resolution of the model's clock below one frame.
TicksPerFrame == 3

\* The most sheets an input tree holds.
MaxSheets == 3

\* The most MP3 files in a list handed to the chapter extractor.
MaxFiles == 3

\* The most files in an input tree handed to the whole pipeline.
MaxTree == 2

\* The most lines of a sheet handed to the parser on its own.
MaxLines == 4

\* ------------------------------------------------------------------------
\* Characters and numbers
\* ------------------------------------------------------------------------

\* cue.py:80 and cue.py:94-98: 75 frames per second.
FramesPerSecond == 75

\* cue.py:77, cue.py:95: 60 seconds per minute.
SecondsPerMinute == 60

TicksPerSecond == FramesPerSecond * TicksPerFrame

DigitChars == <<"0", "1", "2", "3", "4", "5", "6", "7", "8", "9">>

\* A character outside ASCII is written as the name of its code point:
\* "U+0660" is ARABIC-INDIC DIGIT ZERO, "U+FF11" FULLWIDTH DIGIT ONE,
\* "U+00B2" SUPERSCRIPT TWO.

\* The decimal digits (category Nd) outside ASCII, one script a row, the
\* digits zero to nine of the script from left to right.
UnicodeDecimalDigits ==
  <<<<"U+0660", "U+0661", "U+0662", "U+0663", "U+0664", "U+0665", "U+0666", "U+0667", "U+0668", "U+0669">>,
    <<"U+06F0", "U+06F1", "U+06F2", "U+06F3", "U+06F4", "U+06F5", "U+06F6", "U+06F7", "U+06F8", "U+06F9">>,
    <<"U+07C0", "U+07C1", "U+07C2", "U+07C3", "U+07C4", "U+07C5", "U+07C6", "U+07C7", "U+07C8", "U+07C9">>,
    <<"U+0966", "U+0967", "U+0968", "U+0969", "U+096A", "U+096B", "U+096C", "U+096D", "U+096E", "U+096F">>,
    <<"U+09E6", "U+09E7", "U+09E8", "U+09E9", "U+09EA", "U+09EB", "U+09EC", "U+09ED", "U+09EE", "U+09EF">>,
    <<"U+0A66", "U+0A67", "U+0A68", "U+0A69", "U+0A6A", "U+0A6B", "U+0A6C", "U+0A6D", "U+0A6E", "U+0A6F">>,
    <<"U+0AE6", "U+0AE7", "U+0AE8", "U+0AE9", "U+0AEA", "U+0AEB", "U+0AEC", "U+0AED", "U+0AEE", "U+0AEF">>,
    <<"U+0B66", "U+0B67", "U+0B68", "U+0B69", "U+0B6A", "U+0B6B", "U+0B6C", "U+0B6D", "U+0B6E", "U+0B6F">>,
    <<"U+0BE6", "U+0BE7", "U+0BE8", "U+0BE9", "U+0BEA", "U+0BEB", "U+0BEC", "U+0BED", "U+0BEE", "U+0BEF">>,
    <<"U+0C66", "U+0C67", "U+0C68", "U+0C69", "U+0C6A", "U+0C6B", "U+0C6C", "U+0C6D", "U+0C6E", "U+0C6F">>,
    <<"U+0CE6", "U+0CE7", "U+0CE8", "U+0CE9", "U+0CEA", "U+0CEB", "U+0CEC", "U+0CED", "U+0CEE", "U+0CEF">>,
    <<"U+0D66", "U+0D67", "U+0D68", "U+0D69", "U+0D6A", "U+0D6B", "U+0D6C", "U+0D6D", "U+0D6E", "U+0D6F">>,
    <<"U+0DE6", "U+0DE7", "U+0DE8", "U+0DE9", "U+0DEA", "U+0DEB", "U+0DEC", "U+0DED", "U+0DEE", "U+0DEF">>,
    <<"U+0E50", "U+0E51", "U+0E52", "U+0E53", "U+0E54", "U+0E55", "U+0E56", "U+0E57", "U+0E58", "U+0E59">>,
    <<"U+0ED0", "U+0ED1", "U+0ED2", "U+0ED3", "U+0ED4", "U+0ED5", "U+0ED6", "U+0ED7", "U+0ED8", "U+0ED9">>,
    <<"U+0F20", "U+0F21", "U+0F22", "U+0F23", "U+0F24", "U+0F25", "U+0F26", "U+0F27", "U+0F28", "U+0F29">>,
    <<"U+1040", "U+1041", "U+1042", "U+1043", "U+1044", "U+1045", "U+1046", "U+1047", "U+1048", "U+1049">>,
    <<"U+1090", "U+1091", "U+1092", "U+1093", "U+1094", "U+1095", "U+1096", "U+1097", "U+1098", "U+1099">>,
    <<"U+17E0", "U+17E1", "U+17E2", "U+17E3", "U+17E4", "U+17E5", "U+17E6", "U+17E7", "U+17E8", "U+17E9">>,
    <<"U+1810", "U+1811", "U+1812", "U+1813", "U+1814", "U+1815", "U+1816", "U+1817", "U+1818", "U+1819">>,
    <<"U+1946", "U+1947", "U+1948", "U+1949", "U+194A", "U+194B", "U+194C", "U+194D", "U+194E", "U+194F">>,
    <<"U+19D0", "U+19D1", "U+19D2", "U+19D3", "U+19D4", "U+19D5", "U+19D6", "U+19D7", "U+19D8", "U+19D9">>,
    <<"U+1A80", "U+1A81", "U+1A82", "U+1A83", "U+1A84", "U+1A85", "U+1A86", "U+1A87", "U+1A88", "U+1A89">>,
    <<"U+1A90", "U+1A91", "U+1A92", "U+1A93", "U+1A94", "U+1A95", "U+1A96", "U+1A97", "U+1A98", "U+1A99">>,
    <<"U+1B50", "U+1B51", "U+1B52", "U+1B53", "U+1B54", "U+1B55", "U+1B56", "U+1B57", "U+1B58", "U+1B59">>,
    <<"U+1BB0", "U+1BB1", "U+1BB2", "U+1BB3", "U+1BB4", "U+1BB5", "U+1BB6", "U+1BB7", "U+1BB8", "U+1BB9">>,
    <<"U+1C40", "U+1C41", "U+1C42", "U+1C43", "U+1C44", "U+1C45", "U+1C46", "U+1C47", "U+1C48", "U+1C49">>,
    <<"U+1C50", "U+1C51", "U+1C52", "U+1C53", "U+1C54", "U+1C55", "U+1C56", "U+1C57", "U+1C58", "U+1C59">>,
    <<"U+A620", "U+A621", "U+A622", "U+A623", "U+A624", "U+A625", "U+A626", "U+A627", "U+A628", "U+A629">>,
    <<"U+A8D0", "U+A8D1", "U+A8D2", "U+A8D3", "U+A8D4", "U+A8D5", "U+A8D6", "U+A8D7", "U+A8D8", "U+A8D9">>,
    <<"U+A900", "U+A901", "U+A902", "U+A903", "U+A904", "U+A905", "U+A906", "U+A907", "U+A908", "U+A909">>,
    <<"U+A9D0", "U+A9D1", "U+A9D2", "U+A9D3", "U+A9D4", "U+A9D5", "U+A9D6", "U+A9D7", "U+A9D8", "U+A9D9">>,
    <<"U+A9F0", "U+A9F1", "U+A9F2", "U+A9F3", "U+A9F4", "U+A9F5", "U+A9F6", "U+A9F7", "U+A9F8", "U+A9F9">>,
    <<"U+AA50", "U+AA51", "U+AA52", "U+AA53", "U+AA54", "U+AA55", "U+AA56", "U+AA57", "U+AA58", "U+AA59">>,
    <<"U+ABF0", "U+ABF1", "U+ABF2", "U+ABF3", "U+ABF4", "U+ABF5", "U+ABF6", "U+ABF7", "U+ABF8", "U+ABF9">>,
    <<"U+FF10", "U+FF11", "U+FF12", "U+FF13", "U+FF14", "U+FF15", "U+FF16", "U+FF17", "U+FF18", "U+FF19">>,
    <<"U+104A0", "U+104A1", "U+104A2", "U+104A3", "U+104A4", "U+104A5", "U+104A6", "U+104A7", "U+104A8", "U+104A9">>,
    <<"U+10D30", "U+10D31", "U+10D32", "U+10D33", "U+10D34", "U+10D35", "U+10D36", "U+10D37", "U+10D38", "U+10D39">>,
    <<"U+11066", "U+11067", "U+11068", "U+11069", "U+1106A", "U+1106B", "U+1106C", "U+1106D", "U+1106E", "U+1106F">>,
    <<"U+110F0", "U+110F1", "U+110F2", "U+110F3", "U+110F4", "U+110F5", "U+110F6", "U+110F7", "U+110F8", "U+110F9">>,
    <<"U+11136", "U+11137", "U+11138", "U+11139", "U+1113A", "U+1113B", "U+1113C", "U+1113D", "U+1113E", "U+1113F">>,
    <<"U+111D0", "U+111D1", "U+111D2", "U+111D3", "U+111D4", "U+111D5", "U+111D6", "U+111D7", "U+111D8", "U+111D9">>,
    <<"U+112F0", "U+112F1", "U+112F2", "U+112F3", "U+112F4", "U+112F5", "U+112F6", "U+112F7", "U+112F8", "U+112F9">>,
    <<"U+11450", "U+11451", "U+11452", "U+11453", "U+11454", "U+11455", "U+11456", "U+11457", "U+11458", "U+11459">>,
    <<"U+114D0", "U+114D1", "U+114D2", "U+114D3", "U+114D4", "U+114D5", "U+114D6", "U+114D7", "U+114D8", "U+114D9">>,
    <<"U+11650", "U+11651", "U+11652", "U+11653", "U+11654", "U+11655", "U+11656", "U+11657", "U+11658", "U+11659">>,
    <<"U+116C0", "U+116C1", "U+116C2", "U+116C3", "U+116C4", "U+116C5", "U+116C6", "U+116C7", "U+116C8", "U+116C9">>,
    <<"U+11730", "U+11731", "U+11732", "U+11733", "U+11734", "U+11735", "U+11736", "U+11737", "U+11738", "U+11739">>,
    <<"U+118E0", "U+118E1", "U+118E2", "U+118E3", "U+118E4", "U+118E5", "U+118E6", "U+118E7", "U+118E8", "U+118E9">>,
    <<"U+11950", "U+11951", "U+11952", "U+11953", "U+11954", "U+11955", "U+11956", "U+11957", "U+11958", "U+11959">>,
    <<"U+11C50", "U+11C51", "U+11C52", "U+11C53", "U+11C54", "U+11C55", "U+11C56", "U+11C57", "U+11C58", "U+11C59">>,
    <<"U+11D50", "U+11D51", "U+11D52", "U+11D53", "U+11D54", "U+11D55", "U+11D56", "U+11D57", "U+11D58", "U+11D59">>,
    <<"U+11DA0", "U+11DA1", "U+11DA2", "U+11DA3", "U+11DA4", "U+11DA5", "U+11DA6", "U+11DA7", "U+11DA8", "U+11DA9">>,
    <<"U+16A60", "U+16A61", "U+16A62", "U+16A63", "U+16A64", "U+16A65", "U+16A66", "U+16A67", "U+16A68", "U+16A69">>,
    <<"U+16AC0", "U+16AC1", "U+16AC2", "U+16AC3", "U+16AC4", "U+16AC5", "U+16AC6", "U+16AC7", "U+16AC8", "U+16AC9">>,
    <<"U+16B50", "U+16B51", "U+16B52", "U+16B53", "U+16B54", "U+16B55", "U+16B56", "U+16B57", "U+16B58", "U+16B59">>,
    <<"U+1D7CE", "U+1D7CF", "U+1D7D0", "U+1D7D1", "U+1D7D2", "U+1D7D3", "U+1D7D4", "U+1D7D5", "U+1D7D6", "U+1D7D7">>,
    <<"U+1D7D8", "U+1D7D9", "U+1D7DA", "U+1D7DB", "U+1D7DC", "U+1D7DD", "U+1D7DE", "U+1D7DF", "U+1D7E0", "U+1D7E1">>,
    <<"U+1D7E2", "U+1D7E3", "U+1D7E4", "U+1D7E5", "U+1D7E6", "U+1D7E7", "U+1D7E8", "U+1D7E9", "U+1D7EA", "U+1D7EB">>,
    <<"U+1D7EC", "U+1D7ED", "U+1D7EE", "U+1D7EF", "U+1D7F0", "U+1D7F1", "U+1D7F2", "U+1D7F3", "U+1D7F4", "U+1D7F5">>,
    <<"U+1D7F6", "U+1D7F7", "U+1D7F8", "U+1D7F9", "U+1D7FA", "U+1D7FB", "U+1D7FC", "U+1D7FD", "U+1D7FE", "U+1D7FF">>,
    <<"U+1E140", "U+1E141", "U+1E142", "U+1E143", "U+1E144", "U+1E145", "U+1E146", "U+1E147", "U+1E148", "U+1E149">>,
    <<"U+1E2F0", "U+1E2F1", "U+1E2F2", "U+1E2F3", "U+1E2F4", "U+1E2F5", "U+1E2F6", "U+1E2F7", "U+1E2F8", "U+1E2F9">>,
    <<"U+1E950", "U+1E951", "U+1E952", "U+1E953", "U+1E954", "U+1E955", "U+1E956", "U+1E957", "U+1E958", "U+1E959">>,
    <<"U+1FBF0", "U+1FBF1", "U+1FBF2", "U+1FBF3", "U+1FBF4", "U+1FBF5", "U+1FBF6", "U+1FBF7", "U+1FBF8", "U+1FBF9">> >>

\* The characters str.isdigit accepts that are no decimal digits
\* (superscripts, subscripts, circled digits, ...): \d does not match
\* them and int() raises ValueError on them.
OtherDigitChars ==
  { "U+00B2", "U+00B3", "U+00B9", "U+1369", "U+136A", "U+136B", "U+136C", "U+136D",
    "U+136E", "U+136F", "U+1370", "U+1371", "U+19DA", "U+2070", "U+2074", "U+2075",
    "U+2076", "U+2077", "U+2078", "U+2079", "U+2080", "U+2081", "U+2082", "U+2083",
    "U+2084", "U+2085", "U+2086", "U+2087", "U+2088", "U+2089", "U+2460", "U+2461",
    "U+2462", "U+2463", "U+2464", "U+2465", "U+2466", "U+2467", "U+2468", "U+2474",
    "U+2475", "U+2476", "U+2477", "U+2478", "U+2479", "U+247A", "U+247B", "U+247C",
    "U+2488", "U+2489", "U+248A", "U+248B", "U+248C", "U+248D", "U+248E", "U+248F",
    "U+2490", "U+24EA", "U+24F5", "U+24F6", "U+24F7", "U+24F8", "U+24F9", "U+24FA",
    "U+24FB", "U+24FC", "U+24FD", "U+24FF", "U+2776", "U+2777", "U+2778", "U+2779",
    "U+277A", "U+277B", "U+277C", "U+277D", "U+277E", "U+2780", "U+2781", "U+2782",
    "U+2783", "U+2784", "U+2785", "U+2786", "U+2787", "U+2788", "U+278A", "U+278B",
    "U+278C", "U+278D", "U+278E", "U+278F", "U+2790", "U+2791", "U+2792", "U+10A40",
    "U+10A41", "U+10A42", "U+10A43", "U+10E60", "U+10E61", "U+10E62", "U+10E63", "U+10E64",
    "U+10E65", "U+10E66", "U+10E67", "U+10E68", "U+11052", "U+11053", "U+11054", "U+11055",
    "U+11056", "U+11057", "U+11058", "U+11059", "U+1105A", "U+1F100", "U+1F101", "U+1F102",
    "U+1F103", "U+1F104", "U+1F105", "U+1F106", "U+1F107", "U+1F108", "U+1F109", "U+1F10A" }

NonAsciiDecimalDigits ==
  {UnicodeDecimalDigits[r][i] : r \in 1..Len(UnicodeDecimalDigits), i \in 1..10}

\* \d of the regular expressions on str: every decimal digit of Unicode.
IsDigit(c) ==
  \/ \E i \in 1..10 : DigitChars[i] = c
  \/ c \in NonAsciiDecimalDigits

\* c.isdigit() of one character.
IsStrDigit(c) == IsDigit(c) \/ c \in OtherDigitChars

\* The value int() gives a decimal digit.
DigitVal(c) ==
  IF \E i \in 1..10 : DigitChars[i] = c
  THEN (CHOOSE i \in 1..10 : DigitChars[i] = c) - 1
  ELSE (CHOOSE i \in 1..10 :
          \E r \in 1..Len(UnicodeDecimalDigits) :
            UnicodeDecimalDigits[r][i] = c) - 1

\* int(s) of a string of decimal digits.
RECURSIVE int(_)
int(s) ==
  IF Len(s) = 0 THEN 0
  ELSE int(SubSeq(s, 1, Len(s) - 1)) * 10 + DigitVal(s[Len(s)])

AllDigits(s) == Len(s) > 0 /\ \A i \in 1..Len(s) : IsDigit(s[i])

\* The decimal digits of n >= 0, as str(n) prints them.
RECURSIVE Dec(_)
Dec(n) ==
  IF n < 10 THEN <<DigitChars[n + 1]>>
  ELSE Dec(n \div 10) \o <<DigitChars[(n % 10) + 1]>>

\* f"{n:02d}" for n >= 0: padded with zeros to a width of AT LEAST two.
Fmt02(n) == IF n < 10 THEN <<"0">> \o Dec(n) ELSE Dec(n)

\* round(n / d) as Python 3 rounds: to the nearest integer, a tie to the
\* even one (n >= 0, d > 0).
round(n, d) ==
  LET q == n \div d
      r == n % d
  IN  IF 2 * r < d THEN q
      ELSE IF 2 * r > d THEN q + 1
      ELSE IF q % 2 = 0 THEN q ELSE q + 1

\* s[i..] starts with the characters of lit.
LitAt(s, i, lit) ==
  /\ i >= 1
  /\ i + Len(lit) - 1 <= Len(s)
  /\ \A k \in 1..Len(lit) : s[i + k - 1] = lit[k]

\* The least member of a non-empty set of positions.
Leftmost(S) == CHOOSE i \in S : \A j \in S : i <= j

\* The end of the longest run of digits that starts at i (\d+ is greedy).
RECURSIVE DigitRunEnd(_, _)
DigitRunEnd(s, i) ==
  IF i < Len(s) /\ IsDigit(s[i + 1]) THEN DigitRunEnd(s, i + 1) ELSE i

\* ------------------------------------------------------------------------
\* CueProcessor.time_to_seconds / seconds_to_time  (cue.py:59-99)
\* ------------------------------------------------------------------------

\* re.match(r"^\d{2}:\d{2}:\d{2}$", time_str): `$` also matches just before
\* a newline that ends the string.
TimeShapeOK(t) ==
  /\ \/ Len(t) = 8
     \/ Len(t) = 9 /\ t[9] = "\n"
  /\ \A k \in {1, 2, 4, 5, 7, 8} : IsDigit(t[k])
  /\ t[3] = ":" /\ t[6] = ":"

Raised(e) == [err |-> e, val |-> 0]
Returned(v) == [err |-> "none", val |-> v]

\* A mutant of time_to_seconds: the frames are dropped.
time_to_seconds_noframes(time_str) ==
  IF ~TimeShapeOK(time_str) THEN Raised("InvalidCueFormatError")
  ELSE LET minutes == int(SubSeq(time_str, 1, 2))
           seconds == int(SubSeq(time_str, 4, 5))
           frames  == int(SubSeq(time_str, 7, 8))
       IN  IF seconds >= SecondsPerMinute \/ frames >= FramesPerSecond
           THEN Raised("InvalidCueFormatError")
           ELSE Returned((minutes * SecondsPerMinute + seconds) * TicksPerSecond)

\* The value returned is in ticks; [err |-> ...] is the exception raised.
time_to_seconds(time_str) ==
  IF ~TimeShapeOK(time_str) THEN Raised("InvalidCueFormatError")
  ELSE LET minutes == int(SubSeq(time_str, 1, 2))
           seconds == int(SubSeq(time_str, 4, 5))
           frames  == int(SubSeq(time_str, 7, 8))
       IN  IF seconds >= SecondsPerMinute \/ frames >= FramesPerSecond
           THEN Raised("InvalidCueFormatError")
           ELSE Returned((minutes * SecondsPerMinute + seconds) * TicksPerSecond
                         + frames * TicksPerFrame)

\* seconds (in ticks) to "MM:SS:FF".
seconds_to_time(ticks) ==
  LET total_frames     == round(ticks, TicksPerFrame)
      minutes          == total_frames \div (FramesPerSecond * SecondsPerMinute)
      remaining_frames == total_frames % (FramesPerSecond * SecondsPerMinute)
      seconds          == remaining_frames \div FramesPerSecond
      frames           == remaining_frames % FramesPerSecond
  IN  Fmt02(minutes) \o <<":">> \o Fmt02(seconds) \o <<":">> \o Fmt02(frames)

\* ------------------------------------------------------------------------
\* CUE sheets as text  (cue.py:26-43, cue.py:134-194)
\* ------------------------------------------------------------------------

\* None of an Optional field: a value no text equals (a text is a sequence
\* of single characters).
None == <<"None">>

\* The characters of a string literal, one by one.
Chars(s) == [i \in 1..Len(s) |-> SubSeq(s, i, i)]

\* c is a character \s matches in a pattern on str: these are the
\* characters str.isspace accepts and str.strip removes.
IsSpace(c) ==
  c \in
  { " ", "\t", "\n", "\r", "\f", "U+000B", "U+001C", "U+001D", "U+001E",
    "U+001F", "U+0085", "U+00A0", "U+1680", "U+2000", "U+2001", "U+2002",
    "U+2003", "U+2004", "U+2005", "U+2006", "U+2007", "U+2008", "U+2009",
    "U+200A", "U+2028", "U+2029", "U+202F", "U+205F", "U+3000" }

\* The end of the longest run of whitespace that starts at i (\s+ is
\* greedy).
RECURSIVE SpaceRunEnd(_, _)
SpaceRunEnd(s, i) ==
  IF i < Len(s) /\ IsSpace(s[i + 1]) THEN SpaceRunEnd(s, i + 1) ELSE i

\* The first place from i on, and the last place up to i, that holds no
\* whitespace (Len(s) + 1 and 0 when there is none).
RECURSIVE InkFrom(_, _)
InkFrom(s, i) ==
  IF i <= Len(s) /\ IsSpace(s[i]) THEN InkFrom(s, i + 1) ELSE i

RECURSIVE InkUpTo(_, _)
InkUpTo(s, i) ==
  IF i >= 1 /\ IsSpace(s[i]) THEN InkUpTo(s, i - 1) ELSE i

\* line.strip()
strip(s) == SubSeq(s, InkFrom(s, 1), InkUpTo(s, Len(s)))

\* line.startswith(lit)
StartsWith(s, lit) == LitAt(s, 1, lit)

\* The literals of the patterns and of the startswith tests.
Lit ==
  [FILE |-> Chars("FILE"), TRACK |-> Chars("TRACK"), AUDIO |-> Chars("AUDIO"),
   TITLE |-> Chars("TITLE"), PERFORMER |-> Chars("PERFORMER"),
   INDEX |-> Chars("INDEX")]

\* The lines combine_cue_sheets writes (cue.py:221-238); the sheets of the
\* input tree are written in the same form.
FileLine(name)      == Chars("FILE \"") \o name \o Chars("\" WAVE")
TrackLine(n)        == Chars("  TRACK ") \o n \o Chars(" AUDIO")
TitleLine(text)     == Chars("    TITLE \"") \o text \o Chars("\"")
PerformerLine(text) == Chars("    PERFORMER \"") \o text \o Chars("\"")
IndexLine(n, t)     == Chars("    INDEX ") \o n \o Chars(" ") \o t
RemLine             == Chars("REM GENRE Audiobook")

\* Track(number, title, performer, index): index is the dict index number ->
\* timestamp, kept as the sequence of its items in insertion order.
Track(number, title, performer, index) ==
  [number |-> number, title |-> title, performer |-> performer, index |-> index]

\* d[k] = v on a dict kept as a sequence of <<key, value>> items: a key
\* already present keeps its place and takes the new value.
DictSet(d, k, v) ==
  IF \E j \in 1..Len(d) : d[j][1] = k
  THEN [j \in 1..Len(d) |-> IF d[j][1] = k THEN <<k, v>> ELSE d[j]]
  ELSE Append(d, <<k, v>>)

\* Where the part of a pattern after `kw\s+` is tried when kw is tried at
\* i: the place after the whitespace that follows kw there, 0 when s does
\* not hold kw and a whitespace character at i.  A shorter run of
\* whitespace leaves a whitespace character next, which none of the
\* patterns takes after \s+.
AfterKeyword(s, i, kw) ==
  IF LitAt(s, i, kw) /\ i + Len(kw) <= Len(s) /\ IsSpace(s[i + Len(kw)])
  THEN SpaceRunEnd(s, i + Len(kw)) + 1
  ELSE 0

\* The places where r"TRACK\s+(\d+)\s+AUDIO" matches in line: TRACK,
\* whitespace, a run of digits, whitespace, AUDIO.  The pattern is anchored
\* at neither end.
TrackLineStarts(line) ==
  {i \in 1..Len(line) :
     \E a \in {AfterKeyword(line, i, Lit.TRACK)} :
       /\ a > 0 /\ a <= Len(line) /\ IsDigit(line[a])
       /\ \E b \in {DigitRunEnd(line, a) + 1} :
            /\ b <= Len(line) /\ IsSpace(line[b])
            /\ LitAt(line, SpaceRunEnd(line, b) + 1, Lit.AUDIO)}

\* re.search(r"TRACK\s+(\d+)\s+AUDIO", line) finds a match.
TrackMatch(line) == TrackLineStarts(line) # {}

\* The run of digits that starts at a: what (\d+) takes there.
DigitsAt(s, a) == SubSeq(s, a, DigitRunEnd(s, a))

\* .group(1) of that match, the leftmost one.
TrackGroup(line) ==
  DigitsAt(line,
           AfterKeyword(line, Leftmost(TrackLineStarts(line)), Lit.TRACK))

\* The places where kw\s+"([^"]+)" matches in s, for kw one of FILE, TITLE
\* and PERFORMER: kw, whitespace, a double quote, one character or more
\* that is no double quote, a double quote.
QuotedStarts(s, kw) ==
  {i \in 1..Len(s) :
     \E a \in {AfterKeyword(s, i, kw)} :
       /\ a > 0 /\ a < Len(s)
       /\ s[a] = "\"" /\ s[a + 1] # "\""
       /\ \E c \in (a + 2)..Len(s) : s[c] = "\""}

\* re.search(r'TITLE\s+"([^"]+)"', line) finds a match, likewise FILE and
\* PERFORMER.
QuotedMatch(s, kw) == QuotedStarts(s, kw) # {}

\* The text between the double quote at a and the next one: what ([^"]+)
\* takes there.
QuotedAt(s, a) ==
  SubSeq(s, a + 1, Leftmost({c \in (a + 2)..Len(s) : s[c] = "\""}) - 1)

\* .group(1) of that match, the leftmost one: the text up to the next
\* double quote.
QuotedGroup(s, kw) ==
  QuotedAt(s, AfterKeyword(s, Leftmost(QuotedStarts(s, kw)), kw))

\* A mutant of IndexStarts: any eight characters are taken for a timecode.
IndexStartsAnyTime(line) ==
  {i \in 1..Len(line) :
     \E a \in {AfterKeyword(line, i, Lit.INDEX)} :
       /\ a > 0 /\ a <= Len(line) /\ IsDigit(line[a])
       /\ \E b \in {DigitRunEnd(line, a) + 1} :
            /\ b <= Len(line) /\ IsSpace(line[b])
            /\ SpaceRunEnd(line, b) + 8 <= Len(line)}

\* The places where r"INDEX\s+(\d+)\s+(\d{2}:\d{2}:\d{2})" matches in
\* line.  The pattern is anchored at neither end, so a longer token matches
\* by its first eight characters.
IndexStarts(line) ==
  {i \in 1..Len(line) :
     \E a \in {AfterKeyword(line, i, Lit.INDEX)} :
       /\ a > 0 /\ a <= Len(line) /\ IsDigit(line[a])
       /\ \E b \in {DigitRunEnd(line, a) + 1} :
            /\ b <= Len(line) /\ IsSpace(line[b])
            /\ \E t \in {SpaceRunEnd(line, b) + 1} :
                 /\ t + 7 <= Len(line)
                 /\ TimeShapeOK(SubSeq(line, t, t + 7))}

\* re.search(r"INDEX\s+(\d+)\s+(\d{2}:\d{2}:\d{2})", line) finds a match.
IndexMatch(line) == IndexStarts(line) # {}

\* The eight characters after the whitespace at b: what
\* (\d{2}:\d{2}:\d{2}) takes there.
TimeAfter(s, b) == SubSeq(s, SpaceRunEnd(s, b) + 1, SpaceRunEnd(s, b) + 8)

\* The two groups of a match whose digits start at a.
IndexGroupsAt(s, a) == <<DigitsAt(s, a), TimeAfter(s, DigitRunEnd(s, a) + 1)>>

\* .group(1) and .group(2) of that match, the leftmost one.
IndexGroups(line) ==
  IndexGroupsAt(line,
                AfterKeyword(line, Leftmost(IndexStarts(line)), Lit.INDEX))

\* The state of the scan of parse_cue_file: the tracks appended so far, the
\* current track (has = FALSE: current_track is None) and the exception.
ScanState(err, tracks, has, cur) ==
  [err |-> err, tracks |-> tracks, has |-> has, cur |-> cur]

NoTrack == Track(0, None, None, <<>>)

\* A mutant of CloseTrack: the open track is dropped.
CloseTrackDropped(tracks, has, cur) == tracks

\* if current_track: tracks.append(current_track)  (cue.py:171-172, 191-192)
CloseTrack(tracks, has, cur) == IF has THEN Append(tracks, cur) ELSE tracks

\* A mutant of SetTitle: a track that has a title keeps it.
SetTitleOnce(cur, text) ==
  IF cur.title = None THEN [cur EXCEPT !.title = text] ELSE cur

\* current_track.title = <group 1 of the TITLE pattern>  (cue.py:179-180)
SetTitle(cur, text) == [cur EXCEPT !.title = text]

\* One iteration of `for line in lines` (cue.py:167-189) on the line as
\* readlines() gave it.  A pattern that finds nothing returns None, and
\* None.group(1) raises AttributeError.
\* index_num = int(match.group(1));
\* current_track.index[index_num] = match.group(2)  (cue.py:188-189)
SetIndex(index, groups) == DictSet(index, int(groups[1]), groups[2])

ScanLine(st, raw) ==
  LET line == strip(raw)
  IN  IF st.err # "none" THEN st
      ELSE IF StartsWith(line, Lit.TRACK) THEN
        IF ~TrackMatch(line) THEN [st EXCEPT !.err = "AttributeError"]
        ELSE ScanState("none",
                       CloseTrack(st.tracks, st.has, st.cur),
                       TRUE,
                       Track(int(TrackGroup(line)), None, None, <<>>))
      ELSE IF st.has THEN
        IF StartsWith(line, Lit.TITLE) THEN
          IF ~QuotedMatch(line, Lit.TITLE)
          THEN [st EXCEPT !.err = "AttributeError"]
          ELSE [st EXCEPT !.cur =
                    SetTitle(st.cur, QuotedGroup(line, Lit.TITLE))]
        ELSE IF StartsWith(line, Lit.PERFORMER) THEN
          IF ~QuotedMatch(line, Lit.PERFORMER)
          THEN [st EXCEPT !.err = "AttributeError"]
          ELSE [st EXCEPT !.cur.performer =
                    QuotedGroup(line, Lit.PERFORMER)]
        ELSE IF StartsWith(line, Lit.INDEX) THEN
          IF IndexMatch(line)
          THEN [st EXCEPT !.cur.index = SetIndex(st.cur.index,
                                                 IndexGroups(line))]
          ELSE st
        ELSE st
      ELSE st

RECURSIVE ScanLines(_, _, _)
ScanLines(st, lines, i) ==
  IF i > Len(lines) THEN st
  ELSE ScanLines(ScanLine(st, lines[i]), lines, i + 1)

\* CueSheet(file_path, audio_file, tracks), or the exception raised.
CueSheet(err, file_path, audio_file, tracks) ==
  [err |-> err, file_path |-> file_path, audio_file |-> audio_file,
   tracks |-> tracks]

\* The end of parse_cue_file once the scan has ended in st: the track still
\* open is appended and the sheet returned  (cue.py:191-194).
ReturnSheet(st, cue_path, audio_file) ==
  IF st.err # "none"
  THEN CueSheet(st.err, cue_path, <<>>, <<>>)
  ELSE CueSheet("none", cue_path, audio_file,
                CloseTrack(st.tracks, st.has, st.cur))

\* parse_cue_file(cue_path) where readlines() gives `lines` for the file at
\* cue_path.  The FILE pattern is applied to the first line that starts
\* with FILE once stripped, as it was read.
parse_lines(cue_path, lines) ==
  LET files == {i \in 1..Len(lines) : StartsWith(strip(lines[i]), Lit.FILE)}
  IN  IF files = {}
      THEN CueSheet("InvalidCueFormatError", cue_path, <<>>, <<>>)
      ELSE
        LET file_match == lines[Leftmost(files)]
        IN  IF ~QuotedMatch(file_match, Lit.FILE)
            THEN CueSheet("AttributeError", cue_path, <<>>, <<>>)
            ELSE
              ReturnSheet(ScanLines(ScanState("none", <<>>, FALSE, NoTrack),
                                    lines, 1),
                          cue_path, QuotedGroup(file_match, Lit.FILE))

\* ------------------------------------------------------------------------
\* The input tree: CUE sheets and the audio files they name
\* ------------------------------------------------------------------------

\* A path: the directory it lies in and its name, as characters.
Path(parent, name) == [parent |-> parent, name |-> name]

\* str(p)
StrPath(p) == p.parent \o <<"/">> \o p.name

\* The sheets there are (path and lines of each).  The sheets below book
\* are those an input tree may hold; the two below tapes carry a quoted FILE
\* name where parse_cue_file does not look for it: in a REM line above the
\* FILE line, and on a second FILE line after an unquoted one.
Lib ==
  << [path  |-> Path(<<"b", "o", "o", "k", "/", "C", "D", "1">>, <<"a", ".", "c", "u", "e">>),
      lines |-> << FileLine(Chars("cd1.flac")),
                   TrackLine(<<"0", "1">>), TitleLine(Chars("Track 1")),
                   PerformerLine(Chars("Artist 1")),
                   IndexLine(<<"0", "1">>, <<"0", "0", ":", "0", "0", ":", "0", "0">>),
                   TrackLine(<<"1", "3">>), TitleLine(Chars("Last Track CD1")),
                   IndexLine(<<"0", "0">>, <<"6", "5", ":", "3", "0", ":", "0", "0">>),
                   IndexLine(<<"0", "1">>, <<"6", "5", ":", "3", "0", ":", "2", "4">>) >>],
     [path  |-> Path(<<"b", "o", "o", "k", "/", "C", "D", "2">>, <<"a", ".", "c", "u", "e">>),
      lines |-> << PerformerLine(Chars("Eckhart Tolle")),
                   FileLine(Chars("cd2.flac")),
                   TrackLine(<<"1", "4">>), TitleLine(Chars("First Track CD2")),
                   IndexLine(<<"0", "1">>, <<"0", "0", ":", "0", "0", ":", "0", "0">>) >>],
     [path  |-> Path(<<"b", "o", "o", "k", "/", "C", "D", "1", "0">>, <<"a", ".", "c", "u", "e">>),
      lines |-> << FileLine(Chars("cd10.flac")),
                   TrackLine(<<"0", "1">>), IndexLine(<<"0", "1">>, <<"0", "0", ":", "0", "0", ":", "0", "0">>),
                   TrackLine(<<"0", "1">>), IndexLine(<<"1">>, <<"5", "9", ":", "5", "9", ":", "7", "4">>) >>],
     [path  |-> Path(<<"b", "o", "o", "k", "/", "C", "D", "0", "2">>, <<"b", ".", "c", "u", "e">>),
      lines |-> << FileLine(Chars("cd02.flac")),
                   TrackLine(<<"0", "2">>), RemLine,
                   IndexLine(<<"0", "1">>, <<"0", "0", ":", "0", "2", ":", "3", "7">>) >>],
     [path  |-> Path(<<"b", "o", "o", "k", "/", "e", "x", "t", "r", "a", "s">>, <<"b", "o", "n", "u", "s", ".", "c", "u", "e">>),
      lines |-> << FileLine(Chars("bonus.flac")),
                   TrackLine(<<"0", "1">>), IndexLine(<<"0", "1">>, <<"0", "0", ":", "0", "0", ":", "0", "0">>) >>],
     [path  |-> Path(<<"b", "o", "o", "k", "/", "C", "D", "3">>, <<"c", ".", "c", "u", "e">>),
      lines |-> << FileLine(Chars("cd3 ch9.flac")),
                   TrackLine(<<"0", "3">>), IndexLine(<<"0", "1">>, <<"0", "0", ":", "6", "1", ":", "0", "0">>) >>],
     [path  |-> Path(<<"b", "o", "o", "k", "/", "C", "D", "4">>, <<"d", ".", "c", "u", "e">>),
      lines |-> << RemLine,
                   TrackLine(<<"0", "1">>), IndexLine(<<"0", "1">>, <<"0", "0", ":", "0", "0", ":", "0", "0">>) >>],
     [path  |-> Path(<<"t", "a", "p", "e", "s", "/", "C", "D", "5">>, <<"e", ".", "c", "u", "e">>),
      lines |-> << Chars("REM FILE \"old.flac\""),
                   FileLine(Chars("cd5.flac")),
                   TrackLine(<<"0", "1">>), IndexLine(<<"0", "1">>, <<"0", "0", ":", "0", "0", ":", "0", "0">>) >>],
     [path  |-> Path(<<"t", "a", "p", "e", "s", "/", "C", "D", "6">>, <<"f", ".", "c", "u", "e">>),
      lines |-> << Chars("FILE cd6.flac WAVE"),
                   FileLine(Chars("cd6b.flac")),
                   TrackLine(<<"0", "1">>), IndexLine(<<"0", "1">>, <<"0", "0", ":", "0", "0", ":", "0", "0">>) >>] >>

\* The sheets below book: those base_dir.rglob("*.cue") can find
\* (cue.py:254), base_dir being book.
LibIds ==
  {id \in DOMAIN Lib : StartsWith(Lib[id].path.parent, Chars("book/"))}

\* f.readlines() of a file in which every line of `lines` ends with a
\* newline.
Terminated(lines) == [i \in 1..Len(lines) |-> lines[i] \o <<"\n">>]

\* open(cue_path).readlines()
ReadLines(id) == Terminated(Lib[id].lines)

\* What parse_cue_file gives for each sheet.
ParsedLib ==
  [id \in DOMAIN Lib |-> parse_lines(Lib[id].path, ReadLines(id))]

\* parse_cue_file(cue_path) for the sheet `id`.
parse_cue_file(id) == ParsedLib[id]

\* cue.file_path.parent / cue.audio_file
AudioPathOf(sheet) == <<sheet.file_path.parent, sheet.audio_file>>

\* The audio files named by the sheets of `ids` that parse.
AudioPathsOf(ids) ==
  {AudioPathOf(parse_cue_file(id)) :
     id \in {i \in ids : parse_cue_file(i).err = "none"}}

Sec(n) == n * TicksPerSecond

\* The entry of an audio file on which ffprobe exits with an error:
\* subprocess.run(..., check=True) raises CalledProcessError, which
\* cue.py:127-128 catches.
ProbeFails == 0 - 1

\* The entries of an audio file for which ffprobe exits with status 0 and
\* prints what cannot be read, each under the name of the exception: output
\* that is no JSON (json.loads raises JSONDecodeError), JSON without format
\* or without duration (the subscript raises KeyError).  cue.py:129-132
\* catches both.
BadOutputProbes == [JSONDecodeError |-> 0 - 5, KeyError |-> 0 - 6]

BadOutputNames == {"JSONDecodeError", "KeyError"}

\* The entries of an audio file whose probe ends with an exception that
\* cue.py:123-132 does not catch, each under the name of the exception:
\* no ffprobe on PATH (subprocess.run raises FileNotFoundError), a
\* duration that is no number such as "N/A" (float raises ValueError),
\* output that is JSON but no mapping such as [] or {"format": null}
\* (the subscript raises TypeError).
UncaughtProbes ==
  [FileNotFoundError |-> 0 - 2, ValueError |-> 0 - 3, TypeError |-> 0 - 4]

UncaughtProbeNames == {"FileNotFoundError", "ValueError", "TypeError"}

\* The exception with which the probe of an audio file ends, for a
\* negative entry: what subprocess.run, json.loads, the subscripts or float
\* raise  (cue.py:124-126, combine_cue.py:82-84).
ProbeException(code) ==
  IF code = ProbeFails THEN "CalledProcessError"
  ELSE IF \E e \in BadOutputNames : BadOutputProbes[e] = code
  THEN CHOOSE e \in BadOutputNames : BadOutputProbes[e] = code
  ELSE CHOOSE e \in UncaughtProbeNames : UncaughtProbes[e] = code

\* What ffprobe may report as the duration of an audio file, in ticks:
\* 5 minutes, 70 minutes and a third of a frame, 30 minutes less a third;
\* or it fails.
DurationSamples == {Sec(300), Sec(4200) + 1, Sec(1800) - 1, ProbeFails}

\* ------------------------------------------------------------------------
\* Disc order  (cue.py:254-257)
\* ------------------------------------------------------------------------

\* The places where re.search(r"CD(\d+)", s) can match.
CDTokenStarts(s) ==
  {i \in 1..(Len(s) - 2) : s[i] = "C" /\ s[i + 1] = "D" /\ IsDigit(s[i + 2])}

HasCDToken(s) == CDTokenStarts(s) # {}

\* A mutant of CDOrdinal: the pattern takes one digit, CD(\d).
CDOrdinalOneDigit(s) ==
  LET i == CHOOSE k \in CDTokenStarts(s) : \A j \in CDTokenStarts(s) : k <= j
  IN  int(SubSeq(s, i + 2, i + 2))

\* int(re.search(r"CD(\d+)", s).group(1)), for s with a CD token: the
\* leftmost match.
CDOrdinal(s) ==
  LET i == CHOOSE k \in CDTokenStarts(s) : \A j \in CDTokenStarts(s) : k <= j
  IN  int(SubSeq(s, i + 2, DigitRunEnd(s, i + 2)))

\* The key of process_directory's sort for sheet `id`.
SortKey(id) == CDOrdinal(StrPath(Lib[id].path))

\* a <= b for two sort keys as Python compares them, item by item from the
\* left; a key that is one integer is kept as a tuple of one item.
RECURSIVE KeyLE(_, _, _)
KeyLE(a, b, k) ==
  IF k > Len(a) THEN TRUE
  ELSE IF a[k] # b[k] THEN a[k] < b[k]
  ELSE KeyLE(a, b, k + 1)

\* list.insert of x into the sorted `out`, after every element whose key is
\* not greater (sorted() is stable).
RECURSIVE InsertByKey(_, _, _)
InsertByKey(out, x, key) ==
  IF Len(out) = 0 THEN <<x>>
  ELSE IF KeyLE(key[out[Len(out)]], key[x], 1) THEN Append(out, x)
  ELSE Append(InsertByKey(SubSeq(out, 1, Len(out) - 1), x, key), out[Len(out)])

\* sorted(seq, key=key)
RECURSIVE sorted(_, _)
sorted(seq, key) ==
  IF Len(seq) = 0 THEN <<>>
  ELSE InsertByKey(sorted(SubSeq(seq, 1, Len(seq) - 1), key), seq[Len(seq)], key)

\* The orders in which a directory scan may return the files of `S`.
Orders(S) ==
  {f \in [1..Cardinality(S) -> S] :
     \A i, j \in 1..Cardinality(S) : i # j => f[i] # f[j]}

\* ------------------------------------------------------------------------
\* MP3 files named after chapters  (processor.py:94-129, 155-274)
\* ------------------------------------------------------------------------

\* lit in s
Contains(s, lit) == \E i \in 1..Len(s) : LitAt(s, i, lit)

\* The place where the literal lit followed by `$` matches in s, 0 when it
\* does not: `$` matches at the end of s and just before a newline that
\* ends s.
SuffixStart(s, lit) ==
  IF LitAt(s, Len(s) - Len(lit) + 1, lit) THEN Len(s) - Len(lit) + 1
  ELSE IF Len(s) > 0 /\ s[Len(s)] = "\n" /\ LitAt(s, Len(s) - Len(lit), lit)
  THEN Len(s) - Len(lit)
  ELSE 0

\* re.search of the literal lit followed by `$` finds a match in s.
EndsWith(s, lit) == SuffixStart(s, lit) > 0

\* Path.stem of a file name: the name up to its last dot, the whole name
\* when it has no dot or its last dot is its first or its last character
\* (i = name.rfind("."); name[:i] if 0 < i < len(name) - 1 else name).
Stem(name) ==
  LET dots == {i \in 1..Len(name) : name[i] = "."}
      last == CHOOSE i \in dots : \A j \in dots : j <= i
  IN  IF dots = {} THEN name
      ELSE IF 1 < last /\ last < Len(name) THEN SubSeq(name, 1, last - 1)
      ELSE name

\* The places where r" - \d+ - Chapter \d+.*?\.mp3$" matches in s: " - ",
\* a run of digits, " - Chapter ", a digit, and somewhere after that digit
\* ".mp3" where `$` matches, with no newline in between (`.` matches no
\* newline).
ChapterStarts(s) ==
  {i \in 1..Len(s) :
     /\ LitAt(s, i, <<" ", "-", " ">>)
     /\ i + 3 <= Len(s) /\ IsDigit(s[i + 3])
     /\ LET e == DigitRunEnd(s, i + 3)
            p == SuffixStart(s, <<".", "m", "p", "3">>)
        IN  /\ LitAt(s, e + 1, <<" ", "-", " ", "C", "h", "a", "p", "t", "e", "r", " ">>)
            /\ e + 12 <= Len(s) /\ IsDigit(s[e + 12])
            /\ EndsWith(s, <<".", "m", "p", "3">>)
            /\ p > e + 12
            /\ \A k \in (e + 13)..(p - 1) : s[k] # "\n"}

\* A mutant of ChapterMatch: no name is taken to fit the pattern.
ChapterMatchNone(s) == FALSE

\* re.search(r"(?:CD\d+.*?)? - \d+ - Chapter \d+.*?\.mp3$", str(f)) and
\* re.compile(r".*? - \d+ - (Chapter \d+.*?)\.mp3$").search(str(f)) find a
\* match in the same strings.
ChapterMatch(s) == ChapterStarts(s) # {}

\* match.group(1) of the chapter pattern: from "Chapter" of the leftmost
\* match to the character before the ".mp3" where `$` matches.
ChapterPhrase(s) ==
  LET i == Leftmost(ChapterStarts(s))
      e == DigitRunEnd(s, i + 3)
  IN  SubSeq(s, e + 4, SuffixStart(s, <<".", "m", "p", "3">>) - 1)

\* The places where r" - (\d+) -" matches in s, and the number it captures.
TrackStarts(s) ==
  {i \in 1..Len(s) :
     /\ LitAt(s, i, <<" ", "-", " ">>)
     /\ i + 3 <= Len(s) /\ IsDigit(s[i + 3])
     /\ LitAt(s, DigitRunEnd(s, i + 3) + 1, <<" ", "-">>)}

TrackAt(s, i) == int(SubSeq(s, i + 3, DigitRunEnd(s, i + 3)))

\* The places where r"CD\d+ - (\d+) -" matches in s.
CDTrackStarts(s) ==
  {i \in CDTokenStarts(s) : (DigitRunEnd(s, i + 2) + 1) \in TrackStarts(s)}

\* _extract_track_number(filename)  (processor.py:94-114)
extract_track_number_stem(name) ==
  LET stem == Stem(name)
  IN  IF CDTrackStarts(stem) # {}
      THEN TrackAt(stem, DigitRunEnd(stem, Leftmost(CDTrackStarts(stem)) + 2) + 1)
      ELSE IF TrackStarts(stem) # {}
      THEN TrackAt(stem, Leftmost(TrackStarts(stem)))
      ELSE 0

\* _extract_cd_number(filename)  (processor.py:116-129)
extract_cd_number(name) ==
  LET stem == Stem(name)
  IN  IF HasCDToken(stem) THEN CDOrdinal(stem) ELSE 0

\* extract_track_number(path) of the branch without CD structure
\* (processor.py:177-181): the pattern is searched in the whole path.
extract_track_number_path(s) ==
  IF TrackStarts(s) # {} THEN TrackAt(s, Leftmost(TrackStarts(s))) ELSE 0

\* The places where r"Duration: (\d{2}):(\d{2}):(\d{2})" matches in the
\* text ffmpeg printed.
DurationStarts(text) ==
  {i \in 1..Len(text) :
     /\ LitAt(text, i, <<"D", "u", "r", "a", "t", "i", "o", "n", ":", " ">>)
     /\ i + 17 <= Len(text)
     /\ TimeShapeOK(SubSeq(text, i + 10, i + 17))}

\* _get_mp3_duration(mp3_file) where `ffmpeg -i mp3_file` printed `text`
\* (processor.py:192-209): whole seconds, 0 when no duration is found.
get_mp3_duration(text) ==
  IF DurationStarts(text) = {} THEN 0
  ELSE LET i       == Leftmost(DurationStarts(text))
           hours   == int(SubSeq(text, i + 10, i + 11))
           minutes == int(SubSeq(text, i + 13, i + 14))
           seconds == int(SubSeq(text, i + 16, i + 17))
       IN  hours * 3600 + minutes * 60 + seconds

\* The MP3 files an input tree may hold.
Mp3Lib ==
  << Path(<<"b", "k", "/", "C", "D", "1">>, <<"B", " ", "C", "D", "1", " ", "-", " ", "0", "1", " ", "-", " ", "C", "h", "a", "p", "t", "e", "r", " ", "1", " ", "-", " ", "I", "n", "t", "r", "o", "d", "u", "c", "t", "i", "o", "n", ".", "m", "p", "3">>),
     Path(<<"b", "k", "/", "C", "D", "1">>, <<"B", " ", "C", "D", "1", " ", "-", " ", "0", "2", " ", "-", " ", "C", "h", "a", "p", "t", "e", "r", " ", "2", ".", "m", "p", "3">>),
     Path(<<"b", "k", "/", "C", "D", "2">>, <<"B", " ", "C", "D", "2", " ", "-", " ", "0", "1", " ", "-", " ", "C", "h", "a", "p", "t", "e", "r", " ", "2", ".", "m", "p", "3">>),
     Path(<<"b", "k", "/", "C", "D", "1", "0">>, <<"B", " ", "C", "D", "1", "0", " ", "-", " ", "0", "1", " ", "-", " ", "C", "h", "a", "p", "t", "e", "r", " ", "3", ".", "m", "p", "3">>),
     Path(<<"b", "k">>, <<"m", "a", "l", "f", "o", "r", "m", "e", "d", ".", "m", "p", "3">>),
     Path(<<"b", "k">>, <<"B", " ", "-", " ", "1", "0", " ", "-", " ", "C", "h", "a", "p", "t", "e", "r", " ", "2", ".", "m", "p", "3">>),
     Path(<<"b", "k">>, <<"B", " ", "-", " ", "9", " ", "-", " ", "C", "h", "a", "p", "t", "e", "r", " ", "4", ".", "m", "p", "3">>),
     Path(<<"b", "k", "/", "A", " ", "-", " ", "2", "0", "0", "5", " ", "-", " ", "B">>, <<"B", " ", "-", " ", "9", " ", "-", " ", "C", "h", "a", "p", "t", "e", "r", " ", "4", ".", "m", "p", "3">>) >>

Mp3Ids == 1..Len(Mp3Lib)

\* What `ffmpeg -i` may print for an MP3 file, with the length of the
\* file's audio in hundredths of a second: 15 minutes, 30 minutes and a
\* half second, eight tenths of a second.
Mp3Samples ==
  { [text |-> <<"D", "u", "r", "a", "t", "i", "o", "n", ":", " ", "0", "0", ":", "1", "5", ":", "0", "0", ".", "0", "0", ",", " ", "s", "t", "a", "r", "t">>, length |-> 90000],
    [text |-> <<"D", "u", "r", "a", "t", "i", "o", "n", ":", " ", "0", "0", ":", "3", "0", ":", "0", "0", ".", "5", "0", ",", " ", "s", "t", "a", "r", "t">>, length |-> 180050],
    [text |-> <<"D", "u", "r", "a", "t", "i", "o", "n", ":", " ", "0", "0", ":", "0", "0", ":", "0", "0", ".", "8", "0", ",", " ", "s", "t", "a", "r", "t">>, length |-> 80] }

\* The audio file that lies beside each sheet of Lib, in the same directory.
FlacName ==
  << <<"c", "d", "1", ".", "f", "l", "a", "c">>, <<"c", "d", "2", ".", "f", "l", "a", "c">>, <<"c", "d", "1", "0", ".", "f", "l", "a", "c">>, <<"c", "d", "0", "2", ".", "f", "l", "a", "c">>, <<"b", "o", "n", "u", "s", ".", "f", "l", "a", "c">>,
     <<"c", "d", "3", " ", "c", "h", "9", ".", "f", "l", "a", "c">>, <<"c", "d", "4", ".", "f", "l", "a", "c">> >>

\* A mutant of FlacNamedAfterDisc: every FLAC file is taken.
FlacNamedAny(name) == TRUE

\* "CD" in f.stem or "cd" in f.stem  (processor.py:145)
FlacNamedAfterDisc(name) ==
  Contains(Stem(name), <<"C", "D">>) \/ Contains(Stem(name), <<"c", "d">>)

\* "".join(filter(str.isdigit, p.stem))  (processor.py:147-149)
StemDigits(name) == SelectSeq(Stem(name), IsStrDigit)

\* Chapter lines of the metadata file: the text before the value, the
\* value, and whether a newline was written after it.
ChapLine(kw, val, nl) == [kw |-> kw, val |-> val, nl |-> nl]

\* An audio file written by a tool from the input files `parts`.
AudioOf(kind, parts) == [exists |-> TRUE, kind |-> kind, parts |-> parts]
NoAudio == [exists |-> FALSE, kind |-> "none", parts |-> <<>>]

\* An audio file left in output_dir by an earlier run.
OldAudio == [exists |-> TRUE, kind |-> "old", parts |-> <<>>]

\* ------------------------------------------------------------------------
\* State
\* ------------------------------------------------------------------------

VARIABLES
  \* timecode conversion: the string given, the value returned by
  \* time_to_seconds, the string returned by seconds_to_time, the position
  tIn, tSecs, tOut, tPc,
  \* the input tree: the sheets below base_dir, the duration ffprobe
  \* reports for each audio file
  fsCue, fsAudio,
  \* process_directory / combine_cue_sheets: position, the order the scan
  \* returned, the sorted cue_files, the loop index i, combined_content,
  \* track_number, the exception raised, the directory its message names
  \* when process_directory raised it itself, the audio files probed so
  \* far, the content of output_dir/combined.cue
  cuePc, scanOrder, cue_files, cueI, combined_content, track_number,
  cueErr, cueErrDir, probeLog, outCue,
  \* the input tree: the MP3 files below input_dir, what ffmpeg prints for
  \* each and how long its audio is
  fsMp3, mp3Info,
  \* extract_chapters_from_filenames: position, the loop index,
  \* chapter_counts, chapters, current_time, the files whose duration was
  \* asked for, the content of output_dir/chapters.txt
  chPc, chI, chapter_counts, chapters, current_time, mp3Probed,
  outChapters,
  \* ProcessingOptions: resume, dry_run, output_format
  optResume, optDryRun, optFormat,
  \* process(): position, the exception raised, the directory its message
  \* names, audio_files, is_mp3, the
  \* audio files of output_dir by name, what the muxing tool was given
  pPc, pErr, pErrDir, audio_files, is_mp3, outAudio, muxed,
  \* parse_cue_file on its own: the lines of the file at cue_path, the
  \* position, the CueSheet returned or the exception raised
  sheetLines, parsePc, parsed,
  \* the legacy script's calculate_cumulative_duration: the list and the
  \* index given, the duration ffprobe reports for each audio file, the
  \* position, the value returned or the exception raised
  legFiles, legIndex, legAudio, legPc, legResult,
  \* calls of process_directory one after the other: self.output_dir, the
  \* number of the call being made, the combined.cue the first call left
  output_dir, cueRun, firstCue,
  \* the process command: the --interactive flag, the files its success
  \* messages named
  interactive, reported

timeVars == <<tIn, tSecs, tOut, tPc>>
cueVars  == <<fsCue, fsAudio, cuePc, scanOrder, cue_files, cueI,
              combined_content, track_number, cueErr, cueErrDir, probeLog,
              outCue>>
chapVars == <<fsMp3, mp3Info, chPc, chI, chapter_counts, chapters,
              current_time, mp3Probed, outChapters>>
optVars  == <<optResume, optDryRun, optFormat>>
procVars == <<pPc, pErr, pErrDir, audio_files, is_mp3, outAudio, muxed>>
parseVars == <<sheetLines, parsePc, parsed>>
legacyVars == <<legFiles, legIndex, legAudio, legPc, legResult>>
rerunVars == <<output_dir, cueRun, firstCue>>
cliVars  == <<interactive, reported>>
vars     == <<timeVars, cueVars, chapVars, optVars, procVars, parseVars,
              legacyVars, rerunVars, cliVars>>

\* A file that does not exist, and one holding `lines`.
Absent == [exists |-> FALSE, lines |-> <<>>]
FileOf(lines) == [exists |-> TRUE, lines |-> lines]

\* A combined.cue left in output_dir by an earlier run.
OldCue == FileOf(<<RemLine>>)

\* self.base_dir of the CueProcessor  (cue.py:55)
BaseDir == <<"b", "o", "o", "k">>

\* self.output_dir of the CueProcessor  (cue.py:56): a directory outside
\* base_dir, base_dir itself, or the directory out below base_dir.
OutsideDir == <<"o", "u", "t">>
BelowDir == BaseDir \o <<"/", "o", "u", "t">>

\* output_file = self.output_dir / "combined.cue"  (cue.py:266)
OutputFile(dir) ==
  Path(dir, <<"c", "o", "m", "b", "i", "n", "e", "d", ".", "c", "u", "e">>)

\* self.base_dir.rglob("*.cue") finds output_dir/combined.cue  (cue.py:255):
\* the file exists and output_dir is base_dir or lies below it.
OutputScanned(dir, out) ==
  /\ out.exists
  /\ Len(dir) >= Len(BaseDir)
  /\ SubSeq(dir, 1, Len(BaseDir)) = BaseDir
  /\ (Len(dir) = Len(BaseDir) \/ dir[Len(BaseDir) + 1] = "/")

\* ------------------------------------------------------------------------
\* CueProcessor.combine_cue_sheets  (cue.py:196-242)
\* ------------------------------------------------------------------------

\* A mutant of get_audio_length: a failed probe counts as no audio.
get_audio_length_zero(audio, path) ==
  IF audio[path] < 0 THEN Returned(0) ELSE Returned(audio[path])

\* get_audio_length(audio_file_path): a negative entry stands for a probe
\* that fails, with AudioFileError for the exceptions caught and with the
\* exception itself for the others.
get_audio_length(audio, path) ==
  IF audio[path] >= 0 THEN Returned(audio[path])
  ELSE IF ProbeException(audio[path])
            \in {"CalledProcessError"} \cup BadOutputNames
  THEN Raised("AudioFileError")
  ELSE Raised(ProbeException(audio[path]))

\* sum(get_audio_length(cue.file_path.parent / cue.audio_file)
\*     for cue in map(parse_cue_file, cue_files[:i]))
\* evaluated left to right from position j (1-based) up to i (0-based
\* index of the current sheet): the sum, the paths probed, the exception.
RECURSIVE SumPrior(_, _, _, _)
SumPrior(audio, files, j, i) ==
  IF j > i THEN [err |-> "none", val |-> 0, probed |-> <<>>]
  ELSE
    LET cue == parse_cue_file(files[j])
    IN  IF cue.err # "none"
        THEN [err |-> cue.err, val |-> 0, probed |-> <<>>]
        ELSE
          LET len == get_audio_length(audio, AudioPathOf(cue))
          IN  IF len.err # "none"
              THEN [err |-> len.err, val |-> 0, probed |-> <<AudioPathOf(cue)>>]
              ELSE
                LET rest == SumPrior(audio, files, j + 1, i)
                IN  [err    |-> rest.err,
                     val    |-> len.val + rest.val,
                     probed |-> <<AudioPathOf(cue)>> \o rest.probed]

\* A mutant of CumulativeDuration: only the sheet just before the current
\* one is counted.
CumulativeDurationLastOnly(audio, files, i) ==
  SumPrior(audio, files, IF i = 0 THEN 1 ELSE i, i)

\* cumulative_duration for the sheet at 0-based position i (cue.py:216-219).
CumulativeDuration(audio, files, i) == SumPrior(audio, files, 1, i)

\* for index_num, timestamp in track.index.items(): ...  (cue.py:233-238)
RECURSIVE EmitIndexes(_, _, _)
EmitIndexes(items, j, cumulative_duration) ==
  IF j > Len(items) THEN [err |-> "none", lines |-> <<>>]
  ELSE
    LET index_num == items[j][1]
        timestamp == items[j][2]
        secs      == time_to_seconds(timestamp)
    IN  IF secs.err # "none" THEN [err |-> secs.err, lines |-> <<>>]
        ELSE
          LET time_seconds  == secs.val + cumulative_duration
              adjusted_time == seconds_to_time(time_seconds)
              rest          == EmitIndexes(items, j + 1, cumulative_duration)
          IN  [err   |-> rest.err,
               lines |-> <<IndexLine(Fmt02(index_num), adjusted_time)>>
                         \o rest.lines]

\* A mutant of TrackNumberAfter: the number printed in the source sheet is
\* carried over.
TrackNumberAfterSource(track_number_, track) == track.number + 1

\* track_number += 1  (cue.py:240)
TrackNumberAfter(track_number_, track) == track_number_ + 1

\* if track.title, if track.performer  (cue.py:227, 229): neither None nor
\* the empty text.
Truthy(text) == text # None /\ text # <<>>

\* for track in cue_sheet.tracks: ...  (cue.py:225-240): the lines
\* appended, track_number afterwards, the exception.
RECURSIVE EmitTracks(_, _, _, _)
EmitTracks(tracks, j, track_number_, cumulative_duration) ==
  IF j > Len(tracks)
  THEN [err |-> "none", lines |-> <<>>, track_number |-> track_number_]
  ELSE
    LET track == tracks[j]
        head  == <<TrackLine(Fmt02(track_number_))>>
                 \o (IF Truthy(track.title)
                     THEN <<TitleLine(track.title)>> ELSE <<>>)
                 \o (IF Truthy(track.performer)
                     THEN <<PerformerLine(track.performer)>> ELSE <<>>)
        idx   == EmitIndexes(track.index, 1, cumulative_duration)
    IN  IF idx.err # "none"
        THEN [err |-> idx.err, lines |-> <<>>, track_number |-> track_number_]
        ELSE
          LET rest == EmitTracks(tracks, j + 1,
                                 TrackNumberAfter(track_number_, track),
                                 cumulative_duration)
          IN  [err          |-> rest.err,
               lines        |-> head \o idx.lines \o rest.lines,
               track_number |-> rest.track_number]

CueFail(e) ==
  /\ cuePc' = "failed"
  /\ cueErr' = e

\* One iteration of `for i, cue_path in enumerate(cue_files)`, in a call
\* made by process_directory ("combining") or made directly ("called").
CombineSheet ==
  /\ cuePc \in {"combining", "called"}
  /\ cueI < Len(cue_files)
  /\ LET cue_sheet == parse_cue_file(cue_files[cueI + 1])
     IN  IF cue_sheet.err # "none"
         THEN /\ CueFail(cue_sheet.err)
              /\ UNCHANGED <<cueI, combined_content, track_number, probeLog>>
         ELSE
           LET cum == CumulativeDuration(fsAudio, cue_files, cueI)
           IN  IF cum.err # "none"
               THEN /\ CueFail(cum.err)
                    /\ probeLog' = probeLog \o cum.probed
                    /\ UNCHANGED <<cueI, combined_content, track_number>>
               ELSE
                 LET em == EmitTracks(cue_sheet.tracks, 1, track_number, cum.val)
                 IN  IF em.err # "none"
                     THEN /\ CueFail(em.err)
                          /\ probeLog' = probeLog \o cum.probed
                          /\ UNCHANGED <<cueI, combined_content, track_number>>
                     ELSE /\ combined_content' =
                               combined_content
                               \o <<FileLine(cue_sheet.audio_file)>>
                               \o em.lines
                          /\ track_number' = em.track_number
                          /\ probeLog' = probeLog \o cum.probed
                          /\ cueI' = cueI + 1
                          /\ UNCHANGED <<cuePc, cueErr>>
  /\ UNCHANGED <<fsCue, fsAudio, scanOrder, cue_files, cueErrDir, outCue>>
  /\ UNCHANGED <<timeVars, chapVars, optVars, procVars, parseVars, legacyVars, rerunVars, cliVars>>

\* ------------------------------------------------------------------------
\* CueProcessor.process_directory  (cue.py:244-269)
\* ------------------------------------------------------------------------

\* A mutant of NoCueFiles: the list is never taken to be empty.
NoCueFilesNever(cue_files_) == FALSE

\* if not cue_files  (cue.py:259)
NoCueFiles(cue_files_) == Len(cue_files_) = 0

\* cue_files = sorted(self.base_dir.rglob("*.cue"), key=...), the check for
\* an empty list, and the entry into combine_cue_sheets.  The key of every
\* path is computed before anything is compared; a path without a CD token
\* makes re.search return None, and None.group(1) raises AttributeError.
ScanAndSort ==
  /\ cuePc = "start"
  /\ \E order \in Orders(fsCue) :
       /\ scanOrder' = order
       /\ IF \/ \E k \in 1..Len(order) :
                   ~HasCDToken(StrPath(Lib[order[k]].path))
             \/ /\ OutputScanned(output_dir, outCue)
                /\ ~HasCDToken(StrPath(OutputFile(output_dir)))
          THEN /\ CueFail("AttributeError")
               /\ UNCHANGED <<cue_files, cueErrDir>>
          ELSE /\ cue_files' = sorted(order, [id \in fsCue |-> <<SortKey(id)>>])
               /\ IF NoCueFiles(cue_files')
                  THEN /\ CueFail("CueProcessingError")
                       /\ cueErrDir' = BaseDir
                  ELSE /\ cuePc' = "combining"
                       /\ UNCHANGED <<cueErr, cueErrDir>>
  /\ UNCHANGED <<fsCue, fsAudio, cueI, combined_content, track_number,
                 probeLog, outCue>>
  /\ UNCHANGED <<timeVars, chapVars, optVars, procVars, parseVars, legacyVars, rerunVars, cliVars>>

\* return "\n".join(combined_content), then
\* output_file.write_text(combined_content)  (cue.py:242, 266-269)
WriteCombined ==
  /\ cuePc = "combining"
  /\ cueI = Len(cue_files)
  /\ outCue' = FileOf(combined_content)
  /\ cuePc' = "done"
  /\ UNCHANGED <<fsCue, fsAudio, scanOrder, cue_files, cueI, combined_content,
                 track_number, cueErr, cueErrDir, probeLog>>
  /\ UNCHANGED <<timeVars, chapVars, optVars, procVars, parseVars, legacyVars, rerunVars, cliVars>>

\* return "\n".join(combined_content) of a direct call  (cue.py:242):
\* combined_content is handed back and no file is written.
ReturnCombined ==
  /\ cuePc = "called"
  /\ cueI = Len(cue_files)
  /\ cuePc' = "returned"
  /\ UNCHANGED <<fsCue, fsAudio, scanOrder, cue_files, cueI, combined_content,
                 track_number, cueErr, cueErrDir, probeLog, outCue>>
  /\ UNCHANGED <<timeVars, chapVars, optVars, procVars, parseVars, legacyVars, rerunVars, cliVars>>

\* ------------------------------------------------------------------------
\* CueProcessor.parse_cue_file called on its own  (cue.py:134-194)
\* ------------------------------------------------------------------------

\* The path of the sheet parsed.
SheetPath == Path(<<"b", "o", "o", "k", "/", "C", "D", "1">>, <<"a", ".", "c", "u", "e">>)

\* FILE cd1.flac WAVE: a FILE line whose name is not quoted.
BareFileLine == Chars("FILE cd1.flac WAVE")

\* TRACK 02 MODE1/2352: a TRACK line that is not an AUDIO track.
DataTrackLine == Chars("  TRACK 02 MODE1/2352")

\* TRACK 09 AUDIOBOOK: a TRACK line on which AUDIO is followed by more
\* text.
AudiobookTrackLine == Chars("  TRACK 09 AUDIOBOOK")

\* TITLE x "Intro": a TITLE line whose quoted text does not follow the
\* keyword and its whitespace.
StrayTitleLine == Chars("    TITLE x \"Intro\"")

\* INDEX 01 00:00:00 with the timecode in Arabic-Indic digits.
ForeignIndexLine ==
  IndexLine(<<"0", "1">>,
            <<"U+0660", "U+0660", ":", "U+0660", "U+0660", ":", "U+0660", "U+0660">>)

\* INDEX 01 00-00-00: an INDEX line whose timecode is not MM:SS:FF.
BadIndexLine ==
  IndexLine(<<"0", "1">>, <<"0", "0", "-", "0", "0", "-", "0", "0">>)

\* The lines the sheets parsed are made of.
SheetLines ==
  { FileLine(Chars("cd1.flac")), BareFileLine,
    TrackLine(<<"0", "1">>), TrackLine(<<"0", "7">>), DataTrackLine,
    AudiobookTrackLine,
    TitleLine(Chars("Intro")), TitleLine(Chars("Outro")), StrayTitleLine,
    PerformerLine(Chars("Ann")),
    IndexLine(<<"0", "1">>, <<"0", "0", ":", "0", "0", ":", "0", "0">>),
    IndexLine(<<"0", "0">>, <<"0", "0", ":", "0", "2", ":", "3", "7">>),
    ForeignIndexLine,
    BadIndexLine,
    RemLine }

\* parse_cue_file(cue_path), from open() to return or raise.
ParseSheet ==
  /\ parsePc = "start"
  /\ parsed' = parse_lines(SheetPath, Terminated(sheetLines))
  /\ parsePc' = IF parsed'.err = "none" THEN "returned" ELSE "raised"
  /\ UNCHANGED sheetLines
  /\ UNCHANGED <<timeVars, cueVars, chapVars, optVars, procVars, legacyVars, rerunVars, cliVars>>

\* ------------------------------------------------------------------------
\* CueProcessor.time_to_seconds and seconds_to_time called on their own
\* (cue.py:59-99)
\* ------------------------------------------------------------------------

\* The two characters of a number below 100.
TwoDigits(n) == <<DigitChars[(n \div 10) + 1], DigitChars[(n % 10) + 1]>>

\* The minutes tried.
MinuteSamples == {0, 1, 9, 10, 59, 65, 99}

\* Every DD:DD:DD string with the minutes tried, in range or not.
ShapedTimes ==
  {TwoDigits(m) \o <<":">> \o TwoDigits(sc) \o <<":">> \o TwoDigits(f) :
     m \in MinuteSamples, sc \in 0..99, f \in 0..99}

\* Strings of another shape.
MisshapedTimes ==
  { <<"0", ":", "0", "0", ":", "0", "0">>, <<"1", "0", "0", ":", "0", "0", ":", "0", "0">>, <<"0", "0", ":", "0", "0", ":", "0", "0", "\n">>, <<"0", "0", "-", "0", "0", "-", "0", "0">>, <<"0", "0", ":", "0", "0">>, <<"0", "a", ":", "0", "0", ":", "0", "0">>, <<>> }

\* Strings of the shape DD:DD:DD in decimal digits outside ASCII:
\* 00:00:00 in Arabic-Indic digits, 01:23:45 in fullwidth digits.
ForeignTimes ==
  { <<"U+0660", "U+0660", ":", "U+0660", "U+0660", ":", "U+0660", "U+0660">>,
    <<"U+FF10", "U+FF11", ":", "U+FF12", "U+FF13", ":", "U+FF14", "U+FF15">> }

TimeInputs == ShapedTimes \cup MisshapedTimes \cup ForeignTimes

\* seconds = self.time_to_seconds(time_str)
ToSeconds ==
  /\ tPc = "in"
  /\ tSecs' = time_to_seconds(tIn)
  /\ tPc' = IF tSecs'.err = "none" THEN "secs" ELSE "raised"
  /\ UNCHANGED <<tIn, tOut>>
  /\ UNCHANGED <<cueVars, chapVars, optVars, procVars, parseVars, legacyVars, rerunVars, cliVars>>

\* self.seconds_to_time(seconds) of the seconds just returned
ToTime ==
  /\ tPc = "secs"
  /\ tOut' = seconds_to_time(tSecs.val)
  /\ tPc' = "out"
  /\ UNCHANGED <<tIn, tSecs>>
  /\ UNCHANGED <<cueVars, chapVars, optVars, procVars, parseVars, legacyVars, rerunVars, cliVars>>

\* ------------------------------------------------------------------------
\* AudiobookProcessor.extract_chapters_from_filenames  (processor.py:229-293)
\* ------------------------------------------------------------------------

\* d.get(k, default) on a dict kept as a sequence of <<key, value>> items.
DictGet(d, k, default) ==
  IF \E j \in 1..Len(d) : d[j][1] = k
  THEN d[CHOOSE j \in 1..Len(d) : d[j][1] = k][2]
  ELSE default

\* "Introduction" in chapter_title  (processor.py:263)
IsIntroduction(chapter_title) == Contains(chapter_title, <<"I", "n", "t", "r", "o", "d", "u", "c", "t", "i", "o", "n">>)

\* chapter_counts after a chapter with this phrase  (processor.py:263-269)
CountsAfter(counts, chapter_title) ==
  IF IsIntroduction(chapter_title) THEN counts
  ELSE DictSet(counts, chapter_title, DictGet(counts, chapter_title, 0) + 1)

\* A mutant of display_title: the suffix is added from the second
\* occurrence of a phrase on.
display_title_repeats(chapter_title, counts) ==
  IF IsIntroduction(chapter_title) \/ DictGet(counts, chapter_title, 0) = 1
  THEN chapter_title
  ELSE chapter_title \o <<" ", "(">> \o Dec(DictGet(counts, chapter_title, 0)) \o <<")">>

\* display_title, with chapter_counts already counted up
\* (processor.py:263-270)
display_title(chapter_title, counts) ==
  IF IsIntroduction(chapter_title) THEN chapter_title
  ELSE chapter_title \o <<" ", "(">> \o Dec(DictGet(counts, chapter_title, 0)) \o <<")">>

\* A mutant of current_time_after: a second is lost between two chapters.
current_time_after_gap(current_time_, duration) == current_time_ + duration + 1

\* current_time += duration  (processor.py:274)
current_time_after(current_time_, duration) == current_time_ + duration

\* (display_title, current_time, current_time + duration)
Chapter(title, start, end) == [title |-> title, start |-> start, end |-> end]

\* One iteration of `for mp3_file in mp3_files`.
ExtractFile ==
  /\ chPc = "loop"
  /\ chI < Len(audio_files)
  /\ LET mp3_file == audio_files[chI + 1]
         s        == StrPath(Mp3Lib[mp3_file])
     IN  IF ~ChapterMatch(s)
         THEN UNCHANGED <<chapter_counts, chapters, current_time, mp3Probed>>
         ELSE
           LET chapter_title == ChapterPhrase(s)
               duration      == get_mp3_duration(mp3Info[mp3_file].text)
           IN  /\ mp3Probed' = Append(mp3Probed, mp3_file)
               /\ IF duration <= 0
                  THEN UNCHANGED <<chapter_counts, chapters, current_time>>
                  ELSE /\ chapter_counts' = CountsAfter(chapter_counts, chapter_title)
                       /\ chapters' =
                            Append(chapters,
                                   Chapter(display_title(chapter_title, chapter_counts'),
                                           current_time, current_time + duration))
                       /\ current_time' = current_time_after(current_time, duration)
  /\ chI' = chI + 1
  /\ UNCHANGED <<fsMp3, mp3Info, chPc, outChapters>>
  /\ UNCHANGED <<timeVars, cueVars, optVars, procVars, parseVars, legacyVars, rerunVars, cliVars>>

\* A mutant of ChapterBlocks: every title line ends with a newline.
RECURSIVE ChapterBlocksNewline(_, _)
ChapterBlocksNewline(chs, i) ==
  IF i > Len(chs) THEN <<>>
  ELSE << ChapLine("[CHAPTER]", <<>>, TRUE),
          ChapLine("TIMEBASE=", <<"1", "/", "1">>, TRUE),
          ChapLine("START=", Dec(chs[i].start), TRUE),
          ChapLine("END=", Dec(chs[i].end), TRUE),
          ChapLine("title=", chs[i].title, TRUE) >>
       \o ChapterBlocksNewline(chs, i + 1)

\* The five lines written for each chapter from position i on
\* (processor.py:282-291): no newline after the last title.
RECURSIVE ChapterBlocks(_, _)
ChapterBlocks(chs, i) ==
  IF i > Len(chs) THEN <<>>
  ELSE << ChapLine("[CHAPTER]", <<>>, TRUE),
          ChapLine("TIMEBASE=", <<"1", "/", "1">>, TRUE),
          ChapLine("START=", Dec(chs[i].start), TRUE),
          ChapLine("END=", Dec(chs[i].end), TRUE),
          ChapLine("title=", chs[i].title, i < Len(chs)) >>
       \o ChapterBlocks(chs, i + 1)

\* with open(chapters_file, "w") as f: ...  (processor.py:276-293)
WriteChapters ==
  /\ chPc = "loop"
  /\ chI = Len(audio_files)
  /\ outChapters' =
       FileOf(<<ChapLine(";FFMETADATA1", <<>>, TRUE)>> \o ChapterBlocks(chapters, 1))
  /\ chPc' = "done"
  /\ UNCHANGED <<fsMp3, mp3Info, chI, chapter_counts, chapters, current_time,
                 mp3Probed>>
  /\ UNCHANGED <<timeVars, cueVars, optVars, procVars, parseVars, legacyVars, rerunVars, cliVars>>

\* ------------------------------------------------------------------------
\* AudiobookProcessor.process  (processor.py:131-190, 295-443)
\* ------------------------------------------------------------------------

\* The audio files of output_dir: combined.mp3, combined.flac,
\* audiobook.aac, "<artist>: <title>.m4b" (written as "m4b") and
\* audiobook.m4b.
AudioNames ==
  {"combined.mp3", "combined.flac", "audiobook.aac", "m4b", "audiobook.m4b"}

\* output_file of the muxing step: process() names it after the metadata
\* (processor.py:364-367), process_with_progress audiobook.m4b
\* (main.py:413).
M4bName == IF interactive THEN "audiobook.m4b" ELSE "m4b"

\* Nothing was handed to a muxing tool.
NotMuxed == [done |-> FALSE, tool |-> "none", name |-> "none", chapters |-> Absent]

\* self.options.input_dir: the directory the MP3 files of Mp3Lib lie
\* below, or the one the sheets of Lib lie below, which is then also the
\* base_dir of the CueProcessor made by _process_flac_files
\* (processor.py:334).
InputDir == IF fsMp3 # {} THEN <<"b", "k">> ELSE BaseDir

\* An exception leaves find_audio_files and process(): its type and the
\* directory its message names (None when it names none).
ProcFail(e, dir) ==
  /\ pPc' = "failed"
  /\ pErr' = e
  /\ pErrDir' = dir
  /\ UNCHANGED <<audio_files, is_mp3>>

\* A mutant of Found: dry_run is not looked at.
FoundNoDryRun(files, mp3) ==
  /\ audio_files' = files
  /\ is_mp3' = mp3
  /\ pPc' = "merge"
  /\ UNCHANGED <<pErr, pErrDir>>

\* process() from the result of find_audio_files to the dry_run return
\* (processor.py:424-434).
Found(files, mp3) ==
  /\ audio_files' = files
  /\ is_mp3' = mp3
  /\ pPc' = IF optDryRun THEN "done" ELSE "merge"
  /\ UNCHANGED <<pErr, pErrDir>>

\* The key of the FLAC sort  (processor.py:147-149)
FlacKey(id) == <<int(StemDigits(FlacName[id]))>>

\* The keys of the two MP3 sorts  (processor.py:170-173, 177-181)
Mp3CdKey(id) ==
  <<extract_cd_number(Mp3Lib[id].name), extract_track_number_stem(Mp3Lib[id].name)>>
Mp3FlatKey(id) == <<extract_track_number_path(StrPath(Mp3Lib[id]))>>

\* audio_files = self.find_audio_files() and the steps of process() up to
\* the dry_run return.  int() raises ValueError for a FLAC stem without
\* digits and for one with a digit that is no decimal digit.
FindAudioFiles ==
  /\ pPc = "find"
  /\ \E forder \in Orders(fsCue), morder \in Orders(fsMp3) :
       LET flac_found ==
             SelectSeq(forder, LAMBDA id : FlacNamedAfterDisc(FlacName[id]))
       IN  IF \E k \in 1..Len(flac_found) :
                 ~AllDigits(StemDigits(FlacName[flac_found[k]]))
           THEN ProcFail("ValueError", None)
           ELSE
             LET flac_files ==
                   sorted(flac_found,
                          [id \in fsCue |->
                             IF FlacNamedAfterDisc(FlacName[id])
                             THEN FlacKey(id) ELSE <<0>>])
             IN  IF Len(flac_files) > 0 THEN Found(flac_files, FALSE)
                 ELSE
                   LET mp3_found ==
                         SelectSeq(morder, LAMBDA id : ChapterMatch(StrPath(Mp3Lib[id])))
                       has_cd_structure ==
                         \E k \in 1..Len(mp3_found) :
                            Contains(Stem(Mp3Lib[mp3_found[k]].name), <<"C", "D">>)
                       mp3_files ==
                         IF has_cd_structure
                         THEN sorted(mp3_found, [id \in fsMp3 |-> Mp3CdKey(id)])
                         ELSE sorted(mp3_found, [id \in fsMp3 |-> Mp3FlatKey(id)])
                   IN  IF Len(mp3_files) = 0
                       THEN ProcFail("AudioProcessingError", InputDir)
                       ELSE Found(mp3_files, TRUE)
  /\ UNCHANGED <<outAudio, muxed>>
  /\ UNCHANGED <<timeVars, cueVars, chapVars, optVars, parseVars, legacyVars, rerunVars, cliVars>>

\* A mutant of Merged: the merge is made whatever output_dir holds.
MergedAlways(name, kind) ==
  [outAudio EXCEPT ![name] = AudioOf(kind, audio_files)]

\* The file a merge leaves at output_dir/name  (processor.py:305-309,
\* 326-330): an existing one is kept when resuming.
Merged(name, kind) ==
  IF ~(optResume /\ outAudio[name].exists)
  THEN [outAudio EXCEPT ![name] = AudioOf(kind, audio_files)]
  ELSE outAudio

\* _process_mp3_files up to the entry into extract_chapters_from_filenames
\* (processor.py:304-313, 241-248).
MergeMp3 ==
  /\ pPc = "merge"
  /\ is_mp3
  /\ outAudio' = Merged("combined.mp3", "mp3")
  /\ pPc' = "chapters"
  /\ chPc' = "loop"
  /\ chI' = 0
  /\ chapter_counts' = <<>>
  /\ chapters' = <<>>
  /\ current_time' = 0
  /\ UNCHANGED <<fsMp3, mp3Info, mp3Probed, outChapters>>
  /\ UNCHANGED <<pErr, pErrDir, audio_files, is_mp3, muxed>>
  /\ UNCHANGED <<timeVars, cueVars, optVars, parseVars, legacyVars, rerunVars, cliVars>>

\* _process_flac_files up to the entry into process_directory
\* (processor.py:325-335).
MergeFlac ==
  /\ pPc = "merge"
  /\ ~is_mp3
  /\ outAudio' = Merged("combined.flac", "flac")
  /\ pPc' = "chapters"
  /\ cuePc' = "start"
  /\ UNCHANGED <<fsCue, fsAudio, scanOrder, cue_files, cueI, combined_content,
                 track_number, cueErr, cueErrDir, probeLog, outCue>>
  /\ UNCHANGED <<pErr, pErrDir, audio_files, is_mp3, muxed>>
  /\ UNCHANGED <<timeVars, chapVars, optVars, parseVars, legacyVars, rerunVars, cliVars>>

\* An exception of process_directory leaves process().
RaiseFromChapters ==
  /\ pPc = "chapters"
  /\ ~is_mp3
  /\ cuePc = "failed"
  /\ pPc' = "failed"
  /\ pErr' = cueErr
  /\ pErrDir' = cueErrDir
  /\ UNCHANGED <<audio_files, is_mp3, outAudio, muxed>>
  /\ UNCHANGED <<timeVars, cueVars, chapVars, optVars, parseVars, legacyVars, rerunVars, cliVars>>

\* _create_output_file up to the end of the conversion
\* (processor.py:390-401, 347-352).
ConvertToAac ==
  /\ pPc = "chapters"
  /\ IF is_mp3 THEN chPc = "done" ELSE cuePc = "done"
  /\ LET combined_audio == IF is_mp3 THEN "combined.mp3" ELSE "combined.flac"
         converted      == AudioOf("aac", outAudio[combined_audio].parts)
     IN  IF optFormat = "aac"
         THEN /\ outAudio' = [outAudio EXCEPT !["audiobook.aac"] = converted]
              /\ pPc' = "done"
         ELSE /\ outAudio' = IF ~(optResume /\ outAudio["audiobook.aac"].exists)
                             THEN [outAudio EXCEPT !["audiobook.aac"] = converted]
                             ELSE outAudio
              /\ pPc' = "mux"
  /\ UNCHANGED <<pErr, pErrDir, audio_files, is_mp3, muxed>>
  /\ UNCHANGED <<timeVars, cueVars, chapVars, optVars, parseVars, legacyVars, rerunVars, cliVars>>

\* _create_m4b_output(aac_file, chapters_file)  (processor.py:354-378),
\* and the same step of process_with_progress (main.py:413-422):
\* chapters_file is chapters.txt on the MP3 path and combined.cue on the
\* FLAC path.  The tool exits with status 0; MuxFails is the step when it
\* does not.
CreateM4b ==
  /\ pPc = "mux"
  /\ muxed' = [done     |-> TRUE,
               tool     |-> IF optFormat = "m4b-ffmpeg" THEN "ffmpeg" ELSE "MP4Box",
               name     |-> IF is_mp3 THEN "chapters.txt" ELSE "combined.cue",
               chapters |-> IF is_mp3 THEN outChapters ELSE outCue]
  /\ outAudio' = [outAudio EXCEPT
                    ![M4bName] = AudioOf("m4b", outAudio["audiobook.aac"].parts)]
  /\ pPc' = "done"
  /\ UNCHANGED <<pErr, pErrDir, audio_files, is_mp3>>
  /\ UNCHANGED <<timeVars, cueVars, chapVars, optVars, parseVars, legacyVars, rerunVars, cliVars>>

\* ------------------------------------------------------------------------
\* Specifications
\* ------------------------------------------------------------------------

\* The states the timecode conversion is left in while sheets are combined.
TimeIdle ==
  /\ tIn = <<>> /\ tSecs = Returned(0) /\ tOut = <<>> /\ tPc = "idle"

\* The states the parser is left in while it is not called on its own.
ParseIdle ==
  /\ sheetLines = <<>> /\ parsePc = "idle"
  /\ parsed = CueSheet("none", Path(<<>>, <<>>), <<>>, <<>>)

\* AudiobookProcessor(options).process() called directly: no progress
\* display, no success message.
CliIdle == interactive = FALSE /\ reported = <<>>

\* A single call of process_directory with output_dir outside base_dir.
RerunIdle ==
  output_dir = OutsideDir /\ cueRun = 1 /\ firstCue = Absent

\* The states the legacy script is left in while it is not run.
LegacyIdle ==
  /\ legFiles = <<>> /\ legIndex = 0 /\ legAudio = <<>>
  /\ legPc = "idle" /\ legResult = Returned(0)

\* The states the chapter extractor is left in while it is not run.
ChapIdle ==
  /\ fsMp3 = {} /\ mp3Info = <<>> /\ chPc = "idle" /\ chI = 0
  /\ chapter_counts = <<>> /\ chapters = <<>> /\ current_time = 0
  /\ mp3Probed = <<>> /\ outChapters = Absent

\* The states process() is left in while it is not run.
ProcIdle ==
  /\ optResume = FALSE /\ optDryRun = FALSE /\ optFormat = "m4b-ffmpeg"
  /\ pPc = "idle" /\ pErr = "none" /\ pErrDir = None
  /\ audio_files = <<>> /\ is_mp3 = FALSE
  /\ outAudio = [n \in AudioNames |-> NoAudio] /\ muxed = NotMuxed

\* A directory of at most MaxSheets sheets and a duration for each audio
\* file they name; nothing processed yet; output_dir holds no combined.cue
\* or the one of an earlier run.
CueInit ==
  /\ \E S \in SUBSET LibIds :
       /\ Cardinality(S) <= MaxSheets
       /\ fsCue = S
       /\ \/ fsAudio \in [AudioPathsOf(S) -> DurationSamples]
          \/ \E p \in AudioPathsOf(S), e \in UncaughtProbeNames :
               fsAudio = [q \in AudioPathsOf(S) |->
                            IF q = p THEN UncaughtProbes[e] ELSE Sec(300)]
          \/ \E p \in AudioPathsOf(S), e \in BadOutputNames :
               fsAudio = [q \in AudioPathsOf(S) |->
                            IF q = p THEN BadOutputProbes[e] ELSE Sec(300)]
  /\ cuePc = "start"
  /\ scanOrder = <<>>
  /\ cue_files = <<>>
  /\ cueI = 0
  /\ combined_content = <<>>
  /\ track_number = 1
  /\ cueErr = "none"
  /\ cueErrDir = None
  /\ probeLog = <<>>
  /\ outCue \in {Absent, OldCue}

CueNext == ScanAndSort \/ CombineSheet \/ WriteCombined

\* combine-cue: CueProcessor(base_dir, output_dir).process_directory()
InitCue ==
  CueInit /\ TimeIdle /\ ChapIdle /\ ProcIdle /\ ParseIdle /\ LegacyIdle /\ RerunIdle /\ CliIdle

SpecCue == InitCue /\ [][CueNext]_vars

\* The states process_directory is left in while nothing is combined.
CueIdle ==
  /\ fsCue = {} /\ fsAudio = <<>> /\ cuePc = "idle" /\ scanOrder = <<>>
  /\ cue_files = <<>> /\ cueI = 0 /\ combined_content = <<>>
  /\ track_number = 1 /\ cueErr = "none" /\ cueErrDir = None
  /\ probeLog = <<>> /\ outCue = Absent

TimeInit ==
  /\ tIn \in TimeInputs
  /\ tSecs = Returned(0)
  /\ tOut = <<>>
  /\ tPc = "in"

TimeNext == ToSeconds \/ ToTime

InitTime ==
  TimeInit /\ CueIdle /\ ChapIdle /\ ProcIdle /\ ParseIdle /\ LegacyIdle /\ RerunIdle /\ CliIdle

SpecTime == InitTime /\ [][TimeNext]_vars

\* The lists of at most n different files of S, in any order.
ListsOf(S, n) ==
  UNION {Orders(T) : T \in {U \in SUBSET S : Cardinality(U) \in 1..n}}

\* The files the lists handed to _process_mp3_files are made of: the
\* Introduction, two files with one phrase, a file with another phrase and
\* the file with a malformed name.
ListedIds == {1, 2, 3, 4, 5}

\* Any ordered list of at most MaxFiles of these files, whatever ffmpeg
\* prints for each; nothing extracted yet, output_dir empty.
ChapInit ==
  /\ \E files \in ListsOf(ListedIds, MaxFiles) :
       /\ audio_files = files
       /\ fsMp3 = {files[k] : k \in 1..Len(files)}
       /\ mp3Info \in [fsMp3 -> Mp3Samples]
  /\ chPc = "idle" /\ chI = 0
  /\ chapter_counts = <<>> /\ chapters = <<>> /\ current_time = 0
  /\ mp3Probed = <<>> /\ outChapters = Absent
  /\ optResume = FALSE /\ optDryRun = FALSE /\ optFormat = "m4b-ffmpeg"
  /\ pPc = "merge" /\ pErr = "none" /\ pErrDir = None /\ is_mp3 = TRUE
  /\ outAudio = [n \in AudioNames |-> NoAudio] /\ muxed = NotMuxed

ChapNext == MergeMp3 \/ ExtractFile \/ WriteChapters

\* AudiobookProcessor(options)._process_mp3_files(audio_files)
InitChap ==
  ChapInit /\ TimeIdle /\ CueIdle /\ ParseIdle /\ LegacyIdle /\ RerunIdle /\ CliIdle

SpecChap == InitChap /\ [][ChapNext]_vars

\* An input tree of at most MaxTree files, either sheets with the audio
\* beside them or MP3 files, with one duration for all its audio files;
\* any options; an output_dir that is empty or holds the combined audio
\* and audiobook.aac of an earlier run.
ProcInit ==
  /\ \E S \in SUBSET LibIds, M \in SUBSET Mp3Ids :
       /\ Cardinality(S) + Cardinality(M) <= MaxTree
       /\ S = {} \/ M = {}
       /\ fsCue = S
       /\ \E d \in DurationSamples : fsAudio = [p \in AudioPathsOf(S) |-> d]
       /\ fsMp3 = M
       /\ \E info \in Mp3Samples : mp3Info = [id \in M |-> info]
  /\ cuePc = "idle" /\ scanOrder = <<>> /\ cue_files = <<>> /\ cueI = 0
  /\ combined_content = <<>> /\ track_number = 1 /\ cueErr = "none"
  /\ cueErrDir = None /\ probeLog = <<>> /\ outCue = Absent
  /\ chPc = "idle" /\ chI = 0
  /\ chapter_counts = <<>> /\ chapters = <<>> /\ current_time = 0
  /\ mp3Probed = <<>> /\ outChapters = Absent
  /\ optResume \in BOOLEAN /\ optDryRun \in BOOLEAN
  /\ optFormat \in {"m4b-ffmpeg", "m4b-mp4box", "aac"}
  /\ pPc = "find" /\ pErr = "none" /\ pErrDir = None
  /\ audio_files = <<>> /\ is_mp3 = FALSE
  /\ \E oldCombined, oldAac \in BOOLEAN :
       outAudio = [n \in AudioNames |->
                     IF \/ n \in {"combined.mp3", "combined.flac"} /\ oldCombined
                        \/ n = "audiobook.aac" /\ oldAac
                     THEN OldAudio ELSE NoAudio]
  /\ muxed = NotMuxed

ProcNext ==
  \/ FindAudioFiles
  \/ MergeMp3 \/ ExtractFile \/ WriteChapters
  \/ MergeFlac \/ ScanAndSort \/ CombineSheet \/ WriteCombined
  \/ RaiseFromChapters
  \/ ConvertToAac
  \/ CreateM4b

\* AudiobookProcessor(options).process()
InitProc ==
  ProcInit /\ TimeIdle /\ ParseIdle /\ LegacyIdle /\ RerunIdle /\ CliIdle

SpecProc == InitProc /\ [][ProcNext]_vars

\* The part of an audio file a tool had written when it failed.
PartialAudio == [exists |-> TRUE, kind |-> "partial", parts |-> <<>>]

\* sox or ffmpeg exits with an error status while merging: merge_flac_files
\* and merge_mp3_files raise AudioProcessingError and remove nothing
\* (audio.py:78-82, 276-277), so the output holds whatever the tool had
\* written: nothing, or a part of the audio.  The merge is run under the
\* test of processor.py:306 and 327.
MergeFails ==
  /\ pPc = "merge"
  /\ LET combined_audio == IF is_mp3 THEN "combined.mp3" ELSE "combined.flac"
     IN  /\ ~(optResume /\ outAudio[combined_audio].exists)
         /\ \E left \in {outAudio[combined_audio], PartialAudio} :
              outAudio' = [outAudio EXCEPT ![combined_audio] = left]
  /\ ProcFail("AudioProcessingError", None)
  /\ UNCHANGED muxed
  /\ UNCHANGED <<timeVars, cueVars, chapVars, optVars, parseVars, legacyVars,
                 rerunVars, cliVars>>

\* ffmpeg exits with an error status while converting: convert_to_aac
\* raises AudioProcessingError and removes nothing (audio.py:100-126).  For
\* an M4B format the conversion is run under the test of processor.py:349.
ConvertFails ==
  /\ pPc = "chapters"
  /\ IF is_mp3 THEN chPc = "done" ELSE cuePc = "done"
  /\ optFormat = "aac" \/ ~(optResume /\ outAudio["audiobook.aac"].exists)
  /\ \E left \in {outAudio["audiobook.aac"], PartialAudio} :
       outAudio' = [outAudio EXCEPT !["audiobook.aac"] = left]
  /\ ProcFail("AudioProcessingError", None)
  /\ UNCHANGED muxed
  /\ UNCHANGED <<timeVars, cueVars, chapVars, optVars, parseVars, legacyVars,
                 rerunVars, cliVars>>

\* ffmpeg or MP4Box exits with an error status while muxing: create_m4b and
\* create_m4b_mp4box raise AudioProcessingError and remove nothing
\* (audio.py:178-179, 204-207), so the M4B file is as it was or holds what
\* the tool had written.
MuxFails ==
  /\ pPc = "mux"
  /\ \E left \in {outAudio[M4bName], PartialAudio} :
       outAudio' = [outAudio EXCEPT ![M4bName] = left]
  /\ ProcFail("AudioProcessingError", None)
  /\ UNCHANGED muxed
  /\ UNCHANGED <<timeVars, cueVars, chapVars, optVars, parseVars, legacyVars,
                 rerunVars, cliVars>>

\* The next run after a tool failed: a new AudiobookProcessor(options) with
\* the same options on the same directories, which hold what the failed
\* run left.
ResumeAgain ==
  /\ pPc = "failed"
  /\ pErr = "AudioProcessingError"
  /\ pErrDir = None
  /\ pPc' = "find" /\ pErr' = "none"
  /\ audio_files' = <<>> /\ is_mp3' = FALSE
  /\ cuePc' = "idle" /\ scanOrder' = <<>> /\ cue_files' = <<>> /\ cueI' = 0
  /\ combined_content' = <<>> /\ track_number' = 1 /\ cueErr' = "none"
  /\ cueErrDir' = None /\ probeLog' = <<>>
  /\ chPc' = "idle" /\ chI' = 0 /\ chapter_counts' = <<>> /\ chapters' = <<>>
  /\ current_time' = 0 /\ mp3Probed' = <<>>
  /\ UNCHANGED <<fsCue, fsAudio, outCue, fsMp3, mp3Info, outChapters>>
  /\ UNCHANGED <<pErrDir, outAudio, muxed>>
  /\ UNCHANGED <<timeVars, optVars, parseVars, legacyVars, rerunVars, cliVars>>

\* Runs of process() with resume set and no dry run, starting on an empty
\* output_dir, where the merge, the conversion and the muxing may fail.
ResumeInit ==
  /\ ProcInit
  /\ optResume
  /\ ~optDryRun
  /\ \A n \in AudioNames : ~outAudio[n].exists

ResumeNext ==
  ProcNext \/ MergeFails \/ ConvertFails \/ MuxFails \/ ResumeAgain

\* AudiobookProcessor(options).process() with resume, run again after a
\* failure
InitResume ==
  ResumeInit /\ TimeIdle /\ ParseIdle /\ LegacyIdle /\ RerunIdle /\ CliIdle

SpecResume == InitResume /\ [][ResumeNext]_vars

\* click.echo(f"Successfully created audiobook: {options.output_dir /
\* 'audiobook.m4b'}") after processor.process() returned, without
\* --interactive and without --dry-run  (main.py:364-369).
EchoSuccess ==
  /\ pPc = "done"
  /\ ~interactive
  /\ ~optDryRun
  /\ reported = <<>>
  /\ reported' = <<"audiobook.m4b">>
  /\ UNCHANGED interactive
  /\ UNCHANGED <<timeVars, cueVars, chapVars, optVars, procVars, parseVars,
                 legacyVars, rerunVars>>

\* The process command on the trees and options of ProcInit, with or
\* without --interactive.
CliInit ==
  /\ ProcInit
  /\ interactive \in BOOLEAN
  /\ reported = <<>>

CliNext == ProcNext \/ EchoSuccess

\* audiobook-tools process <input_dir>: process_audiobook(processor,
\* options, audio_files, interactive)
InitCli ==
  CliInit /\ TimeIdle /\ ParseIdle /\ LegacyIdle /\ RerunIdle

SpecCli == InitCli /\ [][CliNext]_vars

\* A direct call of combine_cue_sheets with any list of at most MaxSheets
\* sheets, the empty list included, in the order the caller chose; one
\* duration for all the audio files they name.
CombInit ==
  /\ \E files \in ListsOf(LibIds, MaxSheets) \cup {<<>>} :
       /\ cue_files = files
       /\ fsCue = {files[k] : k \in 1..Len(files)}
       /\ \E d \in DurationSamples :
            fsAudio = [p \in AudioPathsOf(fsCue) |-> d]
  /\ cuePc = "called"
  /\ scanOrder = <<>>
  /\ cueI = 0
  /\ combined_content = <<>>
  /\ track_number = 1
  /\ cueErr = "none"
  /\ cueErrDir = None
  /\ probeLog = <<>>
  /\ outCue = Absent

CombNext == CombineSheet \/ ReturnCombined

\* CueProcessor(base_dir, output_dir).combine_cue_sheets(cue_files)
InitComb ==
  CombInit /\ TimeIdle /\ ChapIdle /\ ProcIdle /\ ParseIdle /\ LegacyIdle /\ RerunIdle /\ CliIdle

SpecComb == InitComb /\ [][CombNext]_vars

\* The sequences of at most n elements of S.
SeqsUpTo(S, n) == UNION {[1..k -> S] : k \in 0..n}

\* A sheet of at most MaxLines lines at cue_path; nothing parsed yet.
ParseInit ==
  /\ sheetLines \in SeqsUpTo(SheetLines, MaxLines)
  /\ parsePc = "start"
  /\ parsed = CueSheet("none", Path(<<>>, <<>>), <<>>, <<>>)

ParseNext == ParseSheet

\* CueProcessor(base_dir, output_dir).parse_cue_file(cue_path)
InitParse ==
  ParseInit /\ TimeIdle /\ CueIdle /\ ChapIdle /\ ProcIdle /\ LegacyIdle /\ RerunIdle /\ CliIdle

SpecParse == InitParse /\ [][ParseNext]_vars

\* A second CueProcessor(base_dir, output_dir).process_directory() after
\* the first one returned: a new object on the same directories, which
\* hold what the first call left.
RunAgain ==
  /\ cuePc = "done"
  /\ cueRun = 1
  /\ cueRun' = 2
  /\ firstCue' = outCue
  /\ cuePc' = "start"
  /\ scanOrder' = <<>>
  /\ cue_files' = <<>>
  /\ cueI' = 0
  /\ combined_content' = <<>>
  /\ track_number' = 1
  /\ probeLog' = <<>>
  /\ UNCHANGED <<fsCue, fsAudio, cueErr, cueErrDir, outCue, output_dir>>
  /\ UNCHANGED <<timeVars, chapVars, optVars, procVars, parseVars, legacyVars,
                 cliVars>>

\* A directory of at most MaxSheets sheets, one duration for all the audio
\* files they name, an output_dir outside base_dir, base_dir itself or
\* below it, which holds no combined.cue yet.
RerunInit ==
  /\ \E S \in SUBSET LibIds :
       /\ Cardinality(S) <= MaxSheets
       /\ fsCue = S
       /\ \E d \in DurationSamples : fsAudio = [p \in AudioPathsOf(S) |-> d]
  /\ cuePc = "start"
  /\ scanOrder = <<>>
  /\ cue_files = <<>>
  /\ cueI = 0
  /\ combined_content = <<>>
  /\ track_number = 1
  /\ cueErr = "none"
  /\ cueErrDir = None
  /\ probeLog = <<>>
  /\ outCue = Absent
  /\ output_dir \in {OutsideDir, BaseDir, BelowDir}
  /\ cueRun = 1
  /\ firstCue = Absent

RerunNext == ScanAndSort \/ CombineSheet \/ WriteCombined \/ RunAgain

\* CueProcessor(base_dir, output_dir).process_directory(), called twice
InitRerun ==
  RerunInit /\ TimeIdle /\ ChapIdle /\ ProcIdle /\ ParseIdle /\ LegacyIdle /\ CliIdle

SpecRerun == InitRerun /\ [][RerunNext]_vars

\* ------------------------------------------------------------------------
\* The legacy script  (src/combine_cue.py)
\* ------------------------------------------------------------------------

\* "".join(lines)
RECURSIVE Joined(_)
Joined(lines) ==
  IF Len(lines) = 0 THEN <<>>
  ELSE Joined(SubSeq(lines, 1, Len(lines) - 1)) \o lines[Len(lines)]

\* f.read() for each sheet.
LibText == [id \in DOMAIN Lib |-> Joined(ReadLines(id))]

\* The places where re.search(r'FILE\s+"([^"]+)"', content) can match in
\* the whole content of the sheet: whitespace and quoted text may run
\* across lines.
LegacyFileMatches(content) == QuotedStarts(content, Lit.FILE)

\* get_audio_length(audio_file_path) of the script  (combine_cue.py:60-84):
\* nothing is caught, so a probe that fails ends the call with its own
\* exception: CalledProcessError, JSONDecodeError, KeyError,
\* FileNotFoundError, ValueError or TypeError.
legacy_get_audio_length(audio, path) ==
  IF audio[path] < 0 THEN Raised(ProbeException(audio[path]))
  ELSE Returned(audio[path])

\* if index > 1  (combine_cue.py:117)
LegacyRecurses(index) == index > 1

\* calculate_cumulative_duration(cue_files, index)  (combine_cue.py:87-120)
RECURSIVE calculate_cumulative_duration(_, _, _)
calculate_cumulative_duration(audio, files, index) ==
  IF index = 0 THEN Returned(0)
  ELSE
    LET previous_cue_path == Lib[files[index]].path
        content           == LibText[files[index]]
        matches           == LegacyFileMatches(content)
    IN  IF matches = {} THEN Raised("ValueError")
        ELSE
          LET audio_file_match == QuotedGroup(content, Lit.FILE)
              audio_file == <<previous_cue_path.parent, audio_file_match>>
              previous_cd_duration == legacy_get_audio_length(audio, audio_file)
          IN  IF previous_cd_duration.err # "none" THEN previous_cd_duration
              ELSE IF LegacyRecurses(index)
              THEN
                LET before == calculate_cumulative_duration(audio, files,
                                                            index - 1)
                IN  IF before.err # "none" THEN before
                    ELSE Returned(previous_cd_duration.val + before.val)
              ELSE previous_cd_duration

\* A call calculate_cumulative_duration(cue_files, index), to its return
\* or its exception.
CalculateCumulative ==
  /\ legPc = "start"
  /\ legResult' = calculate_cumulative_duration(legAudio, legFiles, legIndex)
  /\ legPc' = IF legResult'.err = "none" THEN "returned" ELSE "raised"
  /\ UNCHANGED <<legFiles, legIndex, legAudio>>
  /\ UNCHANGED <<timeVars, cueVars, chapVars, optVars, procVars, parseVars,
                 rerunVars, cliVars>>

\* What ffprobe may report to the script: the first two of
\* DurationSamples, or it exits with an error.
LegacyDurations == {Sec(300), Sec(4200) + 1, ProbeFails}

\* The audio files the sheets of `ids` name, as parse_cue_file reads them
\* and as the script reads them.
LegacyAudioPathsOf(ids) ==
  AudioPathsOf(ids)
    \cup {<<Lib[id].path.parent, QuotedGroup(LibText[id], Lit.FILE)>> :
            id \in {i \in ids : LegacyFileMatches(LibText[i]) # {}}}

\* Any list of at most MaxSheets sheets, below book or below tapes, in any
\* order, any index into the list or just past its end, and an entry for
\* each audio file the sheets name: a duration or a failure of ffprobe for
\* each, or a probe that ends with one of the other exceptions for one of
\* them.
LegacyInit ==
  /\ legFiles \in ListsOf(DOMAIN Lib, MaxSheets) \cup {<<>>}
  /\ legIndex \in 0..Len(legFiles)
  /\ \E paths \in {LegacyAudioPathsOf({legFiles[k] : k \in 1..Len(legFiles)})} :
       \/ legAudio \in [paths -> LegacyDurations]
       \/ \E p \in paths, e \in BadOutputNames :
            legAudio = [q \in paths |->
                          IF q = p THEN BadOutputProbes[e] ELSE Sec(300)]
       \/ \E p \in paths, e \in UncaughtProbeNames :
            legAudio = [q \in paths |->
                          IF q = p THEN UncaughtProbes[e] ELSE Sec(300)]
  /\ legPc = "start"
  /\ legResult = Returned(0)

LegacyNext == CalculateCumulative

\* calculate_cumulative_duration(cue_files, index) of src/combine_cue.py
InitLegacy ==
  LegacyInit /\ TimeIdle /\ CueIdle /\ ChapIdle /\ ProcIdle /\ ParseIdle /\ RerunIdle /\ CliIdle

SpecLegacy == InitLegacy /\ [][LegacyNext]_vars

\* ------------------------------------------------------------------------
\* Claims
\* ------------------------------------------------------------------------

\* The strings MM:SS:FF with SS in 00..59 and FF in 00..74.
ValidTimes ==
  {TwoDigits(m) \o <<":">> \o TwoDigits(sc) \o <<":">> \o TwoDigits(f) :
     m \in MinuteSamples, sc \in 0..59, f \in 0..74}

\* C1: for every string t of the form MM:SS:FF with SS in 00..59 and FF in
\* 00..74, time_to_seconds(t) raises nothing and
\* seconds_to_time(time_to_seconds(t)) is exactly t.
C1_RoundTrip ==
  tIn \in ValidTimes =>
    /\ tPc # "raised"
    /\ tPc = "out" => tOut = tIn

\* C1 witness: the round trip of 65:30:24 has been made.
C1_Witness ==
  /\ tPc = "out"
  /\ tIn = <<"6", "5", ":", "3", "0", ":", "2", "4">>
  /\ tSecs.val = Sec(3930) + 24 * TicksPerFrame

\* line.split(): the runs of characters of a line that are no whitespace,
\* in order.
RECURSIVE Words(_)
Words(s) ==
  LET inked == {i \in 1..Len(s) : ~IsSpace(s[i])}
  IN  IF inked = {} THEN <<>>
      ELSE
        LET a    == Leftmost(inked)
            gaps == {i \in a..Len(s) : IsSpace(s[i])}
            b    == IF gaps = {} THEN Len(s) ELSE Leftmost(gaps) - 1
        IN  <<SubSeq(s, a, b)>> \o Words(SubSeq(s, b + 1, Len(s)))

\* The first word of a line is kw.
HasKeyword(line, kw) ==
  LET w == Words(line) IN w # <<>> /\ w[1] = kw

\* The second and the third word of a line.
NumberField(line) == Words(line)[2]
TimeField(line) == Words(line)[3]

\* The last position of a non-empty set of positions.
LastOf(S) == CHOOSE i \in S : \A j \in S : j <= i

\* The text of a line between its first and its last double quote, empty
\* when the line has less than two.
QuotedField(line) ==
  LET quotes == {i \in 1..Len(line) : line[i] = "\""}
  IN  IF Cardinality(quotes) < 2 THEN <<>>
      ELSE SubSeq(line, Leftmost(quotes) + 1, LastOf(quotes) - 1)

\* The lines of the combined sheet whose keyword is `kw`, in order.
OutLines(kw) == SelectSeq(outCue.lines, LAMBDA l : HasKeyword(l, kw))

\* The tracks of the sheets of `files`, in sheet order then track order,
\* each with the 1-based position of its sheet.
RECURSIVE TracksOf(_, _)
TracksOf(files, k) ==
  IF k > Len(files) THEN <<>>
  ELSE LET tr == parse_cue_file(files[k]).tracks
       IN  [j \in 1..Len(tr) |-> [pos |-> k, track |-> tr[j]]]
           \o TracksOf(files, k + 1)

\* The index entries of a sequence of tracks, in order, each with the
\* position of its sheet.
RECURSIVE IndexesOf(_, _)
IndexesOf(tracks, j) ==
  IF j > Len(tracks) THEN <<>>
  ELSE LET items == tracks[j].track.index
       IN  [m \in 1..Len(items) |->
              [pos |-> tracks[j].pos, num |-> items[m][1], time |-> items[m][2]]]
           \o IndexesOf(tracks, j + 1)

InputTracks  == TracksOf(cue_files, 1)
InputIndexes == IndexesOf(InputTracks, 1)

\* The probed durations of the audio files of the first k sheets, summed.
RECURSIVE PrefixDuration(_)
PrefixDuration(k) ==
  IF k = 0 THEN 0
  ELSE PrefixDuration(k - 1)
       + fsAudio[AudioPathOf(parse_cue_file(cue_files[k]))]

\* C2: the k-th TRACK line of the combined sheet carries number k, from 1
\* and rising by one, whatever numbers the source sheets printed, and
\* there is one TRACK line for every track of every sheet.
C2_Renumbered ==
  cuePc = "done" =>
    LET out == OutLines(Lit.TRACK)
    IN  /\ Len(out) = Len(InputTracks)
        /\ \A k \in 1..Len(out) :
             /\ AllDigits(NumberField(out[k]))
             /\ int(NumberField(out[k])) = k

\* C2 witness: two or more sheets were combined whose printed track numbers
\* are not 1..N (a gap and a restart).
C2_Witness ==
  /\ cuePc = "done"
  /\ Len(cue_files) >= 2
  /\ \E k \in 1..Len(InputTracks) : InputTracks[k].track.number > k
  /\ \E k \in 1..Len(InputTracks) : InputTracks[k].track.number < k

\* C3: every index entry of the sheet at 0-based position k is emitted as
\* the timecode of its own time plus the probed durations of the audio of
\* sheets 0..k-1; the entries of the first sheet are emitted unchanged; and
\* after a first disc of 300 s an entry 00:00:00 of the second disc is
\* emitted as 05:00:00.
C3_Offsets ==
  cuePc = "done" =>
    LET lines == OutLines(Lit.INDEX)
        input == InputIndexes
    IN  /\ Len(lines) = Len(input)
        /\ \A m \in 1..Len(input) :
             LET e   == input[m]
                 out == Words(lines[m])
             IN  /\ out[3] = seconds_to_time(time_to_seconds(e.time).val
                                             + PrefixDuration(e.pos - 1))
                 /\ int(out[2]) = e.num
                 /\ e.pos = 1 => out[3] = e.time
                 /\ (e.pos = 2 /\ PrefixDuration(1) = Sec(300)
                       /\ e.time = <<"0", "0", ":", "0", "0", ":", "0", "0">>)
                    => out[3] = <<"0", "5", ":", "0", "0", ":", "0", "0">>

\* C3 witness: three sheets were combined, the third has an index entry,
\* and the first disc of 300 s moved the second disc's 00:00:00 to 05:00:00.
C3_Witness ==
  /\ cuePc = "done"
  /\ Len(cue_files) = 3
  /\ PrefixDuration(1) = Sec(300)
  /\ PrefixDuration(2) # PrefixDuration(1) + PrefixDuration(1)
  /\ \E m \in 1..Len(InputIndexes) :
       /\ InputIndexes[m].pos = 2
       /\ InputIndexes[m].time = <<"0", "0", ":", "0", "0", ":", "0", "0">>
       /\ TimeField(OutLines(Lit.INDEX)[m]) = <<"0", "5", ":", "0", "0", ":", "0", "0">>
  /\ \E m \in 1..Len(InputIndexes) : InputIndexes[m].pos = 3

\* The duration the extractor is given for file `id`.
ProbedDuration(id) == get_mp3_duration(mp3Info[id].text)

\* The files looked at so far that gave a chapter: those whose name fits
\* the chapter pattern and whose probed duration is positive.
Contributors ==
  SelectSeq(SubSeq(audio_files, 1, chI),
            LAMBDA id : /\ ChapterMatch(StrPath(Mp3Lib[id]))
                        /\ ProbedDuration(id) > 0)

\* The probed durations of the first k contributing files, summed.
RECURSIVE ContributedDuration(_)
ContributedDuration(k) ==
  IF k = 0 THEN 0
  ELSE ContributedDuration(k - 1) + ProbedDuration(Contributors[k])

\* The values written after `kw` in chapters.txt, in order, as numbers.
WrittenNumbers(kw) ==
  LET ls == SelectSeq(outChapters.lines, LAMBDA l : l.kw = kw)
  IN  [k \in 1..Len(ls) |-> int(ls[k].val)]

\* C4: in the timeline built from any ordered file list there is one
\* chapter for every contributing file, the first chapter starts at 0,
\* every chapter ends at its start plus the probed duration of its file,
\* every chapter ends where the next one starts, and the last chapter ends
\* at the sum of the probed durations of the contributing files; the
\* START and END lines written to chapters.txt carry these numbers.
C4_Contiguous ==
  chPc \in {"loop", "done"} =>
    /\ Len(chapters) = Len(Contributors)
    /\ Len(chapters) > 0 => chapters[1].start = 0
    /\ \A i \in 1..Len(chapters) :
         chapters[i].end = chapters[i].start + ProbedDuration(Contributors[i])
    /\ \A i \in 1..(Len(chapters) - 1) : chapters[i].end = chapters[i + 1].start
    /\ Len(chapters) > 0 =>
         chapters[Len(chapters)].end = ContributedDuration(Len(chapters))
    /\ chPc = "done" =>
         /\ WrittenNumbers("START=") = [i \in 1..Len(chapters) |-> chapters[i].start]
         /\ WrittenNumbers("END=") = [i \in 1..Len(chapters) |-> chapters[i].end]

\* C4 witness: a list of three files was processed, one of them was
\* skipped, and the two chapters written have different lengths.
C4_Witness ==
  /\ chPc = "done"
  /\ Len(audio_files) = 3
  /\ Len(chapters) = 2
  /\ chapters[1].end = 900
  /\ chapters[2].start = 900
  /\ chapters[2].end = 2700

\* The length of the audio merged into combined.mp3, in hundredths of a
\* second.
RECURSIVE PartsLength(_, _)
PartsLength(parts, k) ==
  IF k = 0 THEN 0 ELSE PartsLength(parts, k - 1) + mp3Info[parts[k]].length

\* C5 (as claimed): after _process_mp3_files every file merged into
\* combined.mp3 has contributed exactly one chapter whose length is that
\* file's duration, and the END of the last chapter written is the total
\* duration of the merged audio.
C5_TimelineCoversAudio ==
  chPc = "done" =>
    LET parts == outAudio["combined.mp3"].parts
    IN  /\ Len(chapters) = Len(parts)
        /\ \A i \in 1..Len(chapters) :
             (chapters[i].end - chapters[i].start) * 100 = mp3Info[parts[i]].length
        /\ WrittenNumbers("END=")[Len(chapters)] * 100 = PartsLength(parts, Len(parts))

\* The phrase in the name of a contributing file.
PhraseOf(id) == ChapterPhrase(StrPath(Mp3Lib[id]))

\* C6: a chapter whose phrase contains "Introduction" is titled with the
\* phrase alone; every other chapter is titled "<phrase> (k)" where k
\* counts the chapters of the timeline up to and including it that have
\* the same phrase, so that skipped files take no number.
C6_Titles ==
  (chPc \in {"loop", "done"} /\ Len(chapters) = Len(Contributors)) =>
    \A i \in 1..Len(chapters) :
      LET phrase == PhraseOf(Contributors[i])
          k      == Cardinality({j \in 1..i : PhraseOf(Contributors[j]) = phrase})
      IN  IF \E a \in 1..(Len(phrase) - 11) :
               SubSeq(phrase, a, a + 11) = <<"I", "n", "t", "r", "o", "d", "u", "c", "t", "i", "o", "n">>
          THEN chapters[i].title = phrase
          ELSE chapters[i].title = phrase \o <<" ", "(">> \o Dec(k) \o <<")">>

\* C6 witness: an Introduction chapter without suffix, then two chapters
\* with one phrase numbered (1) and (2), written to chapters.txt.
C6_Witness ==
  /\ chPc = "done"
  /\ Len(chapters) = 3
  /\ chapters[1].title = <<"C", "h", "a", "p", "t", "e", "r", " ", "1", " ", "-", " ", "I", "n", "t", "r", "o", "d", "u", "c", "t", "i", "o", "n">>
  /\ chapters[2].title = <<"C", "h", "a", "p", "t", "e", "r", " ", "2", " ", "(", "1", ")">>
  /\ chapters[3].title = <<"C", "h", "a", "p", "t", "e", "r", " ", "2", " ", "(", "2", ")">>

\* The disc ordinal written in the path of each sheet of Lib (0: the path
\* has no CD<digits> token).
DiscNumber == <<1, 2, 10, 2, 0, 3, 4>>

\* C7: process_directory combines the sheets found in ascending order of
\* their disc ordinals, compared as numbers, whatever order the scan
\* returned them in: cue_files holds exactly the sheets scanned, ordinals
\* never decrease along it, and the FILE lines written follow it.
C7_DiscOrder ==
  cuePc \in {"combining", "done"} =>
    /\ Len(cue_files) = Len(scanOrder)
    /\ {cue_files[k] : k \in 1..Len(cue_files)} = fsCue
    /\ \A i, j \in 1..Len(cue_files) :
         i < j => DiscNumber[cue_files[i]] <= DiscNumber[cue_files[j]]
    /\ cuePc = "done" =>
         LET out == OutLines(Lit.FILE)
         IN  /\ Len(out) = Len(cue_files)
             /\ \A k \in 1..Len(cue_files) :
                  QuotedField(out[k]) = parse_cue_file(cue_files[k]).audio_file

\* C7 witness: the scan returned CD10 before CD2 and CD1, and the combined
\* sheet was written.
C7_Witness ==
  /\ cuePc = "done"
  /\ scanOrder = <<3, 2, 1>>
  /\ cue_files = <<1, 2, 3>>

\* C8 (as claimed): when a sheet found has no CD<digits> token in its path,
\* process_directory fails with CueProcessingError and writes no
\* combined.cue.
C8_MissingTagRaisesCueError ==
  (cuePc # "start" /\ \E id \in fsCue : DiscNumber[id] = 0) =>
    /\ cuePc = "failed"
    /\ cueErr = "CueProcessingError"
    /\ ~outCue.exists

\* The keywords of the lines of a chapter metadata file after its header.
ChapterKeywords == {"[CHAPTER]", "TIMEBASE=", "START=", "END=", "title="}

\* C9 (as claimed): whether the input was FLAC with CUE sheets or MP3 files
\* named after chapters, the chapters file handed to the muxing tool is one
\* written by the chapter writer: chapters.txt, a ;FFMETADATA1 header
\* followed by [CHAPTER] blocks.
C9_SingleWriter ==
  muxed.done =>
    /\ muxed.chapters.exists
    /\ muxed.name = "chapters.txt"
    /\ Len(muxed.chapters.lines) >= 1
    /\ muxed.chapters.lines[1].kw = ";FFMETADATA1"
    /\ \A k \in 2..Len(muxed.chapters.lines) :
         muxed.chapters.lines[k].kw \in ChapterKeywords

\* Re-reading the combined sheet with parse_cue_file.
Reparsed == parse_lines(Path(<<"o", "u", "t">>, <<"c", "o", "m", "b", "i", "n", "e", "d", ".", "c", "u", "e">>), Terminated(outCue.lines))

\* C10 (as claimed): every INDEX line of the combined sheet carries a
\* timecode of the two-digit MM:SS:FF form that the parser's INDEX pattern
\* and time_to_seconds accept, and parsing the combined sheet again gives
\* as many tracks and index entries as the input sheets had.
C10_OutputInGrammar ==
  cuePc = "done" =>
    /\ LET out == OutLines(Lit.INDEX)
       IN  \A k \in 1..Len(out) :
             /\ Len(TimeField(out[k])) = 8
             /\ IndexMatch(out[k])
             /\ time_to_seconds(TimeField(out[k])).err = "none"
    /\ Reparsed.err = "none"
    /\ Len(Reparsed.tracks) = Len(InputTracks)
    /\ Len(IndexesOf([j \in 1..Len(Reparsed.tracks) |->
                        [pos |-> 1, track |-> Reparsed.tracks[j]]], 1))
         = Len(InputIndexes)

\* How many times the duration probe was asked about `path`.
ProbeCount(path) ==
  Cardinality({k \in 1..Len(probeLog) : probeLog[k] = path})

\* C11 (as claimed): when the sheets of a directory have been combined, the
\* duration probe has been invoked exactly once for the audio file of each
\* sheet, whatever the number of sheets.
C11_OneProbePerSheet ==
  cuePc = "done" =>
    \A k \in 1..Len(cue_files) :
      ProbeCount(AudioPathOf(parse_cue_file(cue_files[k]))) = 1

\* What is wrong with each sheet of Lib: sheet 6 carries the timecode
\* 00:61:00, sheet 7 has no FILE line.
SheetFault ==
  <<"none", "none", "none", "none", "none", "timecode", "parse">>

\* The positions of cue_files whose audio file has the entry `code`, the
\* last position left out: no duration is asked for the last sheet.
ProbesWith(code) ==
  {k \in 1..(Len(cue_files) - 1) :
     /\ SheetFault[cue_files[k]] # "parse"
     /\ fsAudio[AudioPathOf(parse_cue_file(cue_files[k]))] = code}

\* The positions of cue_files on whose audio file the probe fails, in one
\* way or another.
FailingProbes ==
  ProbesWith(ProbeFails)
    \cup UNION {ProbesWith(BadOutputProbes[e]) : e \in BadOutputNames}
    \cup UNION {ProbesWith(UncaughtProbes[e]) : e \in UncaughtProbeNames}

\* The positions of cue_files whose sheet does not parse or carries a
\* timecode that cannot be converted.
FailingSheets ==
  {k \in 1..Len(cue_files) : SheetFault[cue_files[k]] # "none"}

\* C12: when parsing a sheet, converting a timecode or probing a duration
\* fails during process_directory, the exception of that failure leaves
\* process_directory and combined.cue is neither created nor modified:
\* until the final write output_dir holds no combined.cue or the one of the
\* earlier run, a failed call has raised the exception of a failure that is
\* present (AudioFileError for a probe failure that get_audio_length
\* catches, the exception of the probe itself for one it does not), and
\* the final write is reached only when nothing fails.
C12_FailureLeavesOutput ==
  /\ cuePc # "done" => outCue \in {Absent, OldCue}
  /\ cuePc = "failed" =>
       /\ cueErr # "none"
       /\ cueErr = "InvalidCueFormatError" => FailingSheets # {}
       /\ cueErr = "AudioFileError" =>
            ProbesWith(ProbeFails)
              \cup UNION {ProbesWith(BadOutputProbes[e]) : e \in BadOutputNames}
              # {}
       /\ \A e \in UncaughtProbeNames :
            cueErr = e => ProbesWith(UncaughtProbes[e]) # {}
  /\ cuePc = "done" => FailingSheets = {} /\ FailingProbes = {}

\* C12 witness: the probe of the first sheet's audio file failed while the
\* second sheet was being combined, and the combined.cue of an earlier run
\* is still there.
C12_Witness ==
  /\ cuePc = "failed"
  /\ cueErr = "AudioFileError"
  /\ cueI = 1
  /\ combined_content # <<>>
  /\ outCue = OldCue

\* C13: when base_dir holds no sheet, process_directory raises
\* CueProcessingError with a message naming base_dir, parses and probes
\* nothing, and writes no combined.cue.
C13_EmptyDirectory ==
  (fsCue = {} /\ cuePc \notin {"idle", "start"}) =>
    /\ cuePc = "failed"
    /\ cueErr = "CueProcessingError"
    /\ cueErrDir = BaseDir
    /\ cueI = 0
    /\ combined_content = <<>>
    /\ probeLog = <<>>
    /\ outCue \in {Absent, OldCue}

\* C13 witness: process_directory has failed on a base_dir without sheets.
C13_Witness ==
  /\ fsCue = {}
  /\ scanOrder = <<>>
  /\ cuePc = "failed"
  /\ cueErrDir = BaseDir

\* C14 (as claimed): a direct call of combine_cue_sheets with the empty
\* list does not return text; it fails with CueProcessingError.
C14_EmptyListRaises ==
  (cue_files = <<>> /\ cuePc \notin {"idle", "start", "called"}) =>
    /\ cuePc = "failed"
    /\ cueErr = "CueProcessingError"

\* The number a two-digit field stands for.
FieldValue(dd) == CHOOSE n \in 0..99 : TwoDigits(n) = dd

\* The value the reference gives for a string of ValidTimes, in ticks:
\* minutes * 60 + seconds + frames / 75.
ReferenceSeconds(t) ==
  (FieldValue(SubSeq(t, 1, 2)) * SecondsPerMinute + FieldValue(SubSeq(t, 4, 5)))
    * TicksPerSecond
  + FieldValue(SubSeq(t, 7, 8)) * TicksPerFrame

\* C15 (as claimed): time_to_seconds returns minutes * 60 + seconds +
\* frames / 75 for a string of exactly the form DD:DD:DD with seconds below
\* 60 and frames below 75, and raises for every other string.
C15_ReferenceConversion ==
  tPc \in {"secs", "raised", "out"} =>
    IF tIn \in ValidTimes
    THEN tSecs = Returned(ReferenceSeconds(tIn))
    ELSE tSecs.err # "none"

\* Each line the sheets parsed are made of, read as words: its keyword,
\* the number its second word stands for (-1 when it is no two-digit
\* number), its third word, the text between its double quotes.
SheetFields ==
  [l \in SheetLines |->
     LET w == Words(l)
     IN  [keyword |-> w[1],
          number  |-> IF Len(w) >= 2 /\ \E n \in 0..99 : TwoDigits(n) = w[2]
                      THEN FieldValue(w[2]) ELSE 0 - 1,
          time    |-> IF Len(w) >= 3 THEN w[3] ELSE <<>>,
          quoted  |-> QuotedField(l)]]

\* The names quoted on the FILE lines of the sheet parsed, in line order.
QuotedFileNames ==
  LET fl == SelectSeq(sheetLines,
                      LAMBDA l : /\ SheetFields[l].keyword = Lit.FILE
                                 /\ SheetFields[l].quoted # <<>>)
  IN  [k \in 1..Len(fl) |-> SheetFields[fl[k]].quoted]

\* C16 (as claimed): parse_cue_file on a sheet with no FILE "<name>"
\* directive fails with InvalidCueFormatError and returns no CueSheet; when
\* the directive is present, the audio_file of the sheet returned is the
\* quoted name.
C16_FileDirective ==
  parsePc \in {"returned", "raised"} =>
    IF QuotedFileNames = <<>>
    THEN parsePc = "raised" /\ parsed.err = "InvalidCueFormatError"
    ELSE parsePc = "returned" => parsed.audio_file = QuotedFileNames[1]

\* The TRACK lines of the sheet parsed, in line order.
TrackLinesOf ==
  SelectSeq(sheetLines, LAMBDA l : SheetFields[l].keyword = Lit.TRACK)

\* C17: when parse_cue_file returns, the sheet holds exactly one Track per
\* TRACK line, in line order, each with the number printed on its line:
\* no track is lost or duplicated, the last one and those without TITLE or
\* INDEX lines included.
C17_TrackCursor ==
  parsePc = "returned" =>
    /\ Len(parsed.tracks) = Len(TrackLinesOf)
    /\ \A k \in 1..Len(parsed.tracks) :
         parsed.tracks[k].number = SheetFields[TrackLinesOf[k]].number

\* C17 witness: a sheet with track 07, its title, then track 01 with no
\* further line has been parsed into two tracks.
C17_Witness ==
  /\ parsePc = "returned"
  /\ sheetLines = << FileLine(Chars("cd1.flac")), TrackLine(<<"0", "7">>),
                     TitleLine(Chars("Intro")), TrackLine(<<"0", "1">>) >>
  /\ Len(parsed.tracks) = 2
  /\ parsed.tracks[2].title = None
  /\ parsed.tracks[2].index = <<>>

\* The INDEX lines of SheetLines that have the form INDEX <n> <MM:SS:FF>,
\* in the decimal digits of any script.
WellFormedIndexLines ==
  { ForeignIndexLine,
    IndexLine(<<"0", "1">>, <<"0", "0", ":", "0", "0", ":", "0", "0">>),
    IndexLine(<<"0", "0">>, <<"0", "0", ":", "0", "2", ":", "3", "7">>) }

\* The positions of the TRACK lines of the sheet parsed.
TrackPositions ==
  {i \in 1..Len(sheetLines) : SheetFields[sheetLines[i]].keyword = Lit.TRACK}

\* The positions of the well-formed INDEX lines with number n that lie in
\* the k-th track: after its TRACK line and before the next one.
IndexPositions(k, n) ==
  LET open == CHOOSE p \in TrackPositions :
                Cardinality({q \in TrackPositions : q <= p}) = k
  IN  {i \in (open + 1)..Len(sheetLines) :
         /\ \A q \in TrackPositions : ~(open < q /\ q < i)
         /\ sheetLines[i] \in WellFormedIndexLines
         /\ SheetFields[sheetLines[i]].number = n}

\* The FILE lines of the sheet parsed, in line order.
FileLinesOf ==
  SelectSeq(sheetLines, LAMBDA l : SheetFields[l].keyword = Lit.FILE)

\* C18: an INDEX line inside an open track that does not have the form
\* INDEX <n> <MM:SS:FF> does not fail parse_cue_file (the parse raises only
\* for a missing or unquoted FILE line, a TRACK line that is not AUDIO or
\* a TITLE line whose quoted text does not follow the keyword)
\* and leaves the index map of the track as it was; a line of that form
\* stores its timecode under n: the map of each track holds, for each n,
\* the timecode of the last well-formed INDEX n line of the track, and
\* nothing else.
C18_IndexTolerance ==
  /\ parsePc = "raised" =>
       \/ FileLinesOf = <<>>
       \/ FileLinesOf[1] = BareFileLine
       \/ \E i \in 1..Len(sheetLines) :
            sheetLines[i] \in {DataTrackLine, StrayTitleLine}
  /\ parsePc = "returned" =>
       \A k \in 1..Len(parsed.tracks) :
         LET index == parsed.tracks[k].index
         IN  /\ \A n \in 0..1 :
                  IF IndexPositions(k, n) = {}
                  THEN \A j \in 1..Len(index) : index[j][1] # n
                  ELSE \E j \in 1..Len(index) :
                         index[j] =
                           <<n, SheetFields[sheetLines[
                                  LastOf(IndexPositions(k, n))]].time>>
             /\ \A j \in 1..Len(index) : index[j][1] \in 0..1
             /\ \A i, j \in 1..Len(index) :
                  index[i][1] = index[j][1] => i = j

\* C18 witness: a malformed INDEX line after a well-formed one inside
\* track 01 has been parsed, and the map holds the well-formed one only.
C18_Witness ==
  /\ parsePc = "returned"
  /\ sheetLines = << FileLine(Chars("cd1.flac")), TrackLine(<<"0", "1">>),
                     IndexLine(<<"0", "1">>, <<"0", "0", ":", "0", "0", ":", "0", "0">>),
                     BadIndexLine >>
  /\ parsed.tracks[1].index = << <<1, <<"0", "0", ":", "0", "0", ":", "0", "0">> >> >>

\* Which files of Mp3Lib have a name of the chapter grammar
\* "<book> - <nn> - Chapter <n>[ - <text>].mp3": all but malformed.mp3.
NameFits == <<TRUE, TRUE, TRUE, TRUE, FALSE, TRUE, TRUE, TRUE>>

\* The files looked at so far whose name fits the grammar.
FittingSoFar ==
  SelectSeq(SubSeq(audio_files, 1, chI), LAMBDA id : NameFits[id])

\* The probed durations of the first k files of `files`, summed; a
\* duration that is not positive counts as nothing.
RECURSIVE SumOfDurations(_, _)
SumOfDurations(files, k) ==
  IF k = 0 THEN 0
  ELSE SumOfDurations(files, k - 1)
       + (IF ProbedDuration(files[k]) > 0 THEN ProbedDuration(files[k]) ELSE 0)

\* C19: a file whose name does not fit the chapter grammar gives no
\* chapter, does not advance the running time, raises nothing and is never
\* passed to the duration probe, and the files after it are still
\* processed: the files probed are exactly the fitting files looked at so
\* far, the chapters are those of the fitting files with a positive
\* duration, and the running time is the sum of their durations.
C19_MalformedSkipped ==
  chPc \in {"loop", "done"} =>
    /\ mp3Probed = FittingSoFar
    /\ Len(chapters) =
         Len(SelectSeq(FittingSoFar, LAMBDA id : ProbedDuration(id) > 0))
    /\ current_time = SumOfDurations(FittingSoFar, Len(FittingSoFar))
    /\ chPc = "done" => chI = Len(audio_files) /\ outChapters.exists

\* C19 witness: the list Introduction, malformed.mp3, Chapter 2 has been
\* processed to the end, and the two fitting files gave the chapters.
C19_Witness ==
  /\ chPc = "done"
  /\ audio_files = <<1, 5, 2>>
  /\ mp3Probed = <<1, 2>>
  /\ Len(chapters) = 2
  /\ chapters[2].start = chapters[1].end

\* The keyword of the j-th line of a chapter block.
BlockKeywords == <<"[CHAPTER]", "TIMEBASE=", "START=", "END=", "title=">>

\* C20: the chapters file written is the header line ;FFMETADATA1 and then,
\* for each chapter in timeline order, the five lines [CHAPTER],
\* TIMEBASE=1/1, START=<start>, END=<end>, title=<title>; every line ends
\* with a newline except the title line of the last chapter, which ends
\* the file.
C20_ChapterFileLayout ==
  chPc = "done" =>
    LET lines == outChapters.lines
        n     == Len(chapters)
    IN  /\ outChapters.exists
        /\ Len(lines) = 1 + 5 * n
        /\ lines[1] = [kw |-> ";FFMETADATA1", val |-> <<>>, nl |-> TRUE]
        /\ \A k \in 1..n :
             LET at == 5 * (k - 1) + 1
             IN  /\ \A j \in 1..5 : lines[at + j].kw = BlockKeywords[j]
                 /\ lines[at + 1].val = <<>>
                 /\ lines[at + 2].val = <<"1", "/", "1">>
                 /\ AllDigits(lines[at + 3].val)
                 /\ int(lines[at + 3].val) = chapters[k].start
                 /\ AllDigits(lines[at + 4].val)
                 /\ int(lines[at + 4].val) = chapters[k].end
                 /\ lines[at + 5].val = chapters[k].title
        /\ \A i \in 1..Len(lines) : lines[i].nl = (i < Len(lines) \/ n = 0)

\* C20 witness: a file of two chapters has been written; its last line is
\* the second title, without newline, and the first title has one.
C20_Witness ==
  /\ chPc = "done"
  /\ Len(chapters) = 2
  /\ Len(outChapters.lines) = 11
  /\ outChapters.lines[6].kw = "title=" /\ outChapters.lines[6].nl
  /\ outChapters.lines[11].kw = "title=" /\ ~outChapters.lines[11].nl

\* Which sheets of Lib have a FLAC file beside them whose name holds "CD"
\* or "cd": all but bonus.flac.
DiscNamedFlac == <<TRUE, TRUE, TRUE, TRUE, FALSE, TRUE, TRUE>>

\* The input directory holds no disc-named FLAC file and no MP3 file whose
\* name fits the chapter grammar.
NoAudioTree ==
  /\ \A id \in fsCue : ~DiscNamedFlac[id]
  /\ \A id \in fsMp3 : ~NameFits[id]

\* C21: when the input directory holds no disc-named FLAC file and no MP3
\* file of the chapter grammar, find_audio_files, and with it process(),
\* fails with AudioProcessingError whose message names input_dir; no
\* merge, probe, conversion or muxing has been made and no chapters file
\* or audio file has been written.
C21_NoAudioFiles ==
  (NoAudioTree /\ pPc \notin {"idle", "find"}) =>
    /\ pPc = "failed"
    /\ pErr = "AudioProcessingError"
    /\ pErrDir = InputDir
    /\ \A n \in AudioNames : outAudio[n] \in {NoAudio, OldAudio}
    /\ muxed = NotMuxed
    /\ chPc = "idle" /\ cuePc = "idle"
    /\ mp3Probed = <<>> /\ probeLog = <<>>
    /\ outChapters = Absent /\ outCue = Absent

\* C21 witness: process() has failed on a directory that holds bonus.flac
\* only.
C21_Witness ==
  /\ fsCue = {5}
  /\ fsMp3 = {}
  /\ pPc = "failed"
  /\ pErr = "AudioProcessingError"

\* The disc number and the track number printed in the name of each file
\* of Mp3Lib ("<book> CD<disc> - <track> - Chapter <n>...", 0 where the
\* name has none).
Mp3Disc  == <<1, 1, 2, 10, 0, 0, 0, 0>>
Mp3Track == <<1, 2, 1, 1, 0, 10, 9, 9>>

\* C22 (as claimed): the list find_audio_files returns in MP3 mode holds
\* the files of the chapter grammar, ascending by (disc number, track
\* number) when names carry a CD<n> prefix and ascending by track number
\* otherwise, the numbers being those printed in the file names.
C22_Mp3PlaybackOrder ==
  (is_mp3 /\ pPc \notin {"idle", "find", "failed"}) =>
    /\ {audio_files[k] : k \in 1..Len(audio_files)}
         = {id \in fsMp3 : NameFits[id]}
    /\ \A i, j \in 1..Len(audio_files) :
         i < j =>
           LET a == audio_files[i]
               b == audio_files[j]
           IN  IF \E id \in fsMp3 : Mp3Disc[id] > 0
               THEN \/ Mp3Disc[a] < Mp3Disc[b]
                    \/ Mp3Disc[a] = Mp3Disc[b] /\ Mp3Track[a] <= Mp3Track[b]
               ELSE Mp3Track[a] <= Mp3Track[b]

\* C23: with dry_run set, process() returns after find_audio_files (or
\* fails in it): no merge, chapter derivation, conversion or muxing is
\* made, and no combined audio file, chapters file or audiobook file is
\* written; output_dir holds what it held before.
C23_DryRunChangesNothing ==
  (optDryRun /\ pPc \notin {"idle", "find"}) =>
    /\ pPc \in {"done", "failed"}
    /\ \A n \in AudioNames : outAudio[n] \in {NoAudio, OldAudio}
    /\ muxed = NotMuxed
    /\ chPc = "idle" /\ cuePc = "idle"
    /\ chapters = <<>> /\ combined_content = <<>>
    /\ mp3Probed = <<>> /\ probeLog = <<>>
    /\ outChapters = Absent /\ outCue = Absent

\* C23 witness: a dry run has found two audio files and returned.
C23_Witness ==
  /\ optDryRun
  /\ pPc = "done"
  /\ Len(audio_files) = 2

\* The name and the kind of the combined audio file of the run.
CombinedName == IF is_mp3 THEN "combined.mp3" ELSE "combined.flac"
CombinedKind == IF is_mp3 THEN "mp3" ELSE "flac"

FieldPositions(k, kw) ==
  LET open == CHOOSE p \in TrackPositions :
                Cardinality({q \in TrackPositions : q <= p}) = k
  IN  {i \in (open + 1)..Len(sheetLines) :
         /\ \A q \in TrackPositions : ~(open < q /\ q < i)
         /\ SheetFields[sheetLines[i]].keyword = kw}

\* The quoted text of the last line with keyword kw in the k-th track, None
\* when the track has no such line.
LastField(k, kw) ==
  IF FieldPositions(k, kw) = {} THEN None
  ELSE SheetFields[sheetLines[LastOf(FieldPositions(k, kw))]].quoted

\* C25: a TITLE or PERFORMER line sets the field of the track opened by the
\* nearest TRACK line above it and of no other track, a repeated directive
\* overwriting the earlier value: when parse_cue_file returns, each track
\* holds the text of the last TITLE and of the last PERFORMER line between
\* its TRACK line and the next one (None when there is none), and every
\* timecode of its index map stands on an INDEX line in that range, so that
\* TITLE, PERFORMER and INDEX lines above the first TRACK line are in no
\* track.
C25_DirectiveScope ==
  parsePc = "returned" =>
    \A k \in 1..Len(parsed.tracks) :
      /\ parsed.tracks[k].title = LastField(k, Lit.TITLE)
      /\ parsed.tracks[k].performer = LastField(k, Lit.PERFORMER)
      /\ \A j \in 1..Len(parsed.tracks[k].index) :
           \E i \in FieldPositions(k, Lit.INDEX) :
             /\ SheetFields[sheetLines[i]].number
                  = parsed.tracks[k].index[j][1]
             /\ SheetFields[sheetLines[i]].time
                  = parsed.tracks[k].index[j][2]

\* C25 witness: a sheet with a TITLE line above its only TRACK line and
\* another one below it has been parsed; the track holds the one below.
C25_Witness ==
  /\ parsePc = "returned"
  /\ sheetLines = << TitleLine(Chars("Intro")), FileLine(Chars("cd1.flac")),
                     TrackLine(<<"0", "1">>), TitleLine(Chars("Outro")) >>
  /\ Len(parsed.tracks) = 1
  /\ parsed.tracks[1].title = Chars("Outro")
  /\ parsed.tracks[1].performer = None


\* The audio file each sheet of Lib names in its FILE directive, which is
\* the file the packaged combiner probes for it (the empty text for the
\* sheet without FILE line and for the sheet whose FILE line carries no
\* quoted name, on which parse_cue_file raises).
LibAudioName ==
  <<Chars("cd1.flac"), Chars("cd2.flac"), Chars("cd10.flac"),
    Chars("cd02.flac"), Chars("bonus.flac"), Chars("cd3 ch9.flac"), <<>>,
    Chars("cd5.flac"), <<>> >>

\* The duration ffprobe reports for the audio file of the k-th sheet of the
\* list given to the script.
LegacyProbed(k) ==
  legAudio[<<Lib[legFiles[k]].path.parent, LibAudioName[legFiles[k]]>>]

\* The sum of the durations of the first k sheets of the list.
RECURSIVE LegacyPrefixSum(_)
LegacyPrefixSum(k) ==
  IF k = 0 THEN 0 ELSE LegacyPrefixSum(k - 1) + LegacyProbed(k)

\* The sheets before the index given whose FILE directive names no file or
\* whose audio file cannot be probed.
LegacyFaulty ==
  {k \in 1..legIndex :
     LibAudioName[legFiles[k]] = <<>> \/ LegacyProbed(k) < 0}

\* C26: for every ordered sheet list and every index i from 0 to its
\* length, calculate_cumulative_duration(cue_files, i) of the legacy script
\* ends: it raises when one of the sheets 0..i-1 names no file in its FILE
\* directive or names an audio file that cannot be probed, and otherwise
\* returns the sum of the probed durations of the audio files of the sheets
\* 0..i-1 (0 for i = 0), which is the value the packaged combiner computes
\* as the offset of sheet i, from the same probes.
C26_RecursiveOffset ==
  /\ legPc = "raised" => LegacyFaulty # {}
  /\ legPc = "returned" =>
       /\ LegacyFaulty = {}
       /\ legResult.val = LegacyPrefixSum(legIndex)
       /\ CumulativeDuration(legAudio, legFiles, legIndex)
            = [err    |-> "none",
               val    |-> legResult.val,
               probed |-> [k \in 1..legIndex |->
                             <<Lib[legFiles[k]].path.parent,
                               LibAudioName[legFiles[k]]>>]]


\* C27: for an input tree with one FLAC file and one sheet per disc, the
\* discs numbered differently, the list of FLAC files that
\* find_audio_files hands to the merge step names the discs in the order
\* in which process_directory combines their sheets.
C27_MergeOrderMatchesCombine ==
  ( /\ ~is_mp3
    /\ pPc \in {"chapters", "mux", "done"}
    /\ cuePc \in {"combining", "done"}
    /\ \A a, b \in fsCue : DiscNumber[a] = DiscNumber[b] => a = b )
  => audio_files = cue_files


\* C28: a second call of process_directory with the same base_dir and
\* output_dir and the same sheets, one per disc number, succeeds like the
\* first one and leaves
\* the combined.cue the first one left, also when output_dir is base_dir
\* or a directory below it.
C28_RerunIdempotent ==
  ( /\ cueRun = 2
    /\ \A a, b \in fsCue : DiscNumber[a] = DiscNumber[b] => a = b )
  => /\ cuePc # "failed"
     /\ cuePc = "done" => outCue = firstCue


\* C29: with and without --interactive the process command leaves the
\* final audiobook at the same path, the one AudiobookProcessor.process
\* returns ("<artist>: <title>.m4b" in output_dir), and the success
\* message names the file that was written.
C29_SameFinalPath ==
  (pPc = "done" /\ ~optDryRun /\ optFormat # "aac") =>
    /\ muxed.done
    /\ outAudio["m4b"].exists
    /\ reported # <<>> => outAudio[reported[1]].exists


\* C30: with resume set, the combined audio and the audiobook.aac that a
\* finished run was built from are never files that a failed merge or a
\* failed conversion left behind: a step whose output comes from a failed
\* attempt is run again.
C30_NoReuseAfterFailure ==
  pPc = "done" =>
    /\ outAudio["combined.mp3"].kind # "partial"
    /\ outAudio["combined.flac"].kind # "partial"
    /\ outAudio["audiobook.aac"].kind # "partial"

=============================================================================
